---- MODULE Spec2Model ----
(***************************************************************************)
(* Job claiming and phase-state checkpointing of YT-DeepReSearch.          *)
(*                                                                         *)
(* Spec      the Excel-backed JobQueue shared by several                   *)
(*           OrchestratorWorkflow.run loops (src/orchestrator).            *)
(* LiveSpec  the same system with the fairness of a running worker loop.   *)
(* SqlSpec   concurrent TopicRepository.fetch_next_topic transactions      *)
(*           (src/db/topic_repository.py).                                 *)
(* ExecSpec  one process_topic / execute_phases run with save_state        *)
(*           written to disk in steps (src/utils/state.py); ExecLiveSpec   *)
(*           adds the fairness of a run whose process stays alive.         *)
(* OrchSpec  Orchestrator.run_continuous loops on the SQLite topics table  *)
(*           (src/orchestrator/orchestrator.py).                           *)
(* ParSpec   one Phase2ParallelResearch.execute call on its thread pool;   *)
(*           ParLiveSpec adds the fairness of its threads.                 *)
(* RetrySpec one call of retry_with_backoff, of PerplexityClient.search /  *)
(*           chat_json, or of ImageGenerator._generate_image_with_retry.   *)
(* AddSpec   callers of the enqueue operation of one store: JobQueue,      *)
(*           ExcelQueueManager or the SQLite TopicRepository.              *)
(* PickSpec  one worker claiming from a backlog of each of the stores.     *)
(* RunSpec   one OrchestratorWorkflow.run loop with its iteration count,   *)
(*           the other users of its sheet being the environment.           *)
(* ByIdSpec  Orchestrator.run_for_topic_id called on the topics table.     *)
(* ListSpec  add_topic, update_status and get_pending_topics called on one *)
(*           ExcelQueueManager.                                            *)
(* PipeSpec  one PipelineOrchestrator.execute_pipeline call.                *)
(***************************************************************************)
EXTENDS Integers, Sequences, FiniteSets, TLC

\* ---------------------------------------------------------------- bounds
NumWorkers == 2
NumTopics == 2
MaxPriority == 1
MaxQueries == 3
MaxPool == 2
MaxRetries == 3
MaxBase == 2
MaxHint == 2
MaxRows == 3
MaxIterations == 2
MaxMsgLen == 2

\* ------------------------------------------------------ program constants
NumPhases == 8

\* PerplexityClient: the wait when a 429 response has no Retry-After header.
DefaultRetryAfter == 60

\* The Retry-After header of a 429 response is missing.
NoHint == -1

Workers == 1..NumWorkers
Topics == 1..NumTopics

STATUS_PENDING == "Pending"
STATUS_IN_PROGRESS == "In_Progress"
STATUS_COMPLETED == "Completed"
STATUS_FAILED == "Failed"

\* str(e) of the exception a phase handler raises; "" is the text of an
\* exception raised without arguments.
ExcTexts == {"", "boom"}

\* The timestamp column relative to the clock of the reader:
\* "none" an empty cell, "fresh" a timestamp at most lock_timeout old,
\* "stale" a timestamp older than lock_timeout.
NoWb == <<>>

VARIABLES
    file,       \* the workbook on disk: row index -> row
    wb,         \* per worker: the workbook object loaded in the running call
    pc,         \* per worker: position in OrchestratorWorkflow.run
    topic,      \* per worker: the topic returned by get_next_pending_topic
    outcome,    \* per worker: what process_topic passes to update_status
    everReset,  \* history: topics that a stale-lock reset was saved for
    \* SqlSpec: the topics table and the callers of fetch_next_topic
    priority,   \* row id -> priority column
    sqlStatus,  \* row id -> committed status column
    rowLock,    \* row id -> the caller whose transaction holds its row lock, 0 for none
    txpc,       \* per caller: position in fetch_next_topic
    txsnap,     \* per caller: the statuses its SELECT statement sees
    txrow,      \* per caller: the row its SELECT returned, 0 for none
    fetched,    \* per caller: ids of the TopicJobs fetch_next_topic returned to it
    \* ExecSpec: one run of process_topic, or of execute_phases on a loaded State
    eentry,     \* the method called: "process_topic" or "execute_phases"
    eprior,     \* the State an earlier claim attempt persisted for the topic
    est,        \* the State object of the run
    edisk,      \* state.json in the workspace of the run
    esave,      \* progress of the save_state call in flight
    epc,        \* position in process_topic / execute_phases
    eph,        \* the loop variable of execute_phases, 0 before the loop
    einvoked,   \* history: the phases whose handler was called, in call order
    eoutcome,   \* what process_topic passes to update_status
    ejob,       \* the topic's row of the sheet
    \* OrchSpec: Orchestrator processes on the SQLite topics table
    orunPhases, \* settings.run_phases
    ostatus,    \* topic id -> status column
    opc,        \* per process: position in run_for_next_topic
    otopic,     \* per process: the topic get_next_pending_topic returned, 0 for none
    ophase,     \* per process: the pipeline phase that is running, 0 for none
    odone,      \* per process: the pipeline phases the run has finished
    odoneAtCompleted,  \* history: topic id -> odone of the run when it wrote completed
    oret,       \* per process: what its last run_for_next_topic call returned, "" before
    olooping,   \* per process: the while loop of run_continuous has not been left
    \* ParSpec: one call of Phase2ParallelResearch.execute
    pN,         \* len(sub_queries)
    pmaxWorkers,\* self.max_workers
    ppc,        \* position of the calling thread in execute
    psubmitted, \* number of executor.submit calls made
    ptask,      \* index of submission -> state of its future
    pyielded,   \* the futures as_completed has yielded
    presults,   \* research_results
    pstatus,    \* "status" of the returned dictionary, "" before the return
    \* RetrySpec: one call of a retrying function
    rkind,      \* "helper" retry_with_backoff, "search" PerplexityClient, "image" ImageGenerator
    rmax,       \* max_retries / self.max_retries / settings.image_retry_count
    rbase,      \* initial_delay / self.backoff_base / settings.image_retry_delay
    rfactor,    \* backoff_factor of retry_with_backoff, 0 for the others
    rpc,        \* "attempt" in the loop, "done" after the return or raise
    rattempt,   \* the loop variable attempt, as the code counts it
    rdelay,     \* the local delay of retry_with_backoff
    rlast,      \* the local last_exception of retry_with_backoff
    rcalls,     \* history: number of invocations of the wrapped call
    routcomes,  \* history: the outcome of each invocation
    rsleeps,    \* history: the time.sleep calls made
    rresult,    \* what the retrying function returned or raised
    \* AddSpec: callers of an enqueue operation on one store
    akind,      \* the class of the store: "JobQueue", "ExcelQueueManager", "TopicRepository"
    arows,      \* the rows of the store, in sheet / id order
    aloaded,    \* per caller: the workbook or DataFrame its running call loaded
    apc,        \* per caller: position in add_topic
    aname,      \* per caller: the topic argument of its call
    anotes,     \* per caller: the notes argument of its call
    aret,       \* per caller: what its last call returned and logged
    \* RunSpec: one OrchestratorWorkflow.run loop and the other users of its sheet
    lmax,       \* self.max_iterations, 0 for no limit
    lcount,     \* the local iteration_count of run
    lpc,        \* position in run
    lrow,       \* the row of the sheet that the scan reaches first
    lavailable, \* the workbook file can be opened and saved
    ltopic,     \* the local topic of run, 0 for None
    loutcome,   \* what process_topic passes to update_status
    llast,      \* the last JobQueue call of the loop: its name, return value and log line
    lprocessed, \* history: number of process_topic calls
    lreturned,  \* what the last process_topic call returned, "" before
    \* ByIdSpec: Orchestrator.run_for_topic_id, one call per caller
    irequested, \* caller -> the topic_id the call was given, 0 before the call
    ipc,        \* caller -> "idle", "get", "reset", "next", "running", "returned", "raised"
    iexc,       \* caller -> the exception the call raised, "" for none
    \* ListSpec: one ExcelQueueManager and the caller of its methods
    xrows,      \* the rows of the sheet, the DataFrame index of xrows[i] being i - 1
    xcall,      \* the last call made: its name and arguments
    xresult,    \* what the last call returned
    \* PipeSpec: one PipelineOrchestrator.execute_pipeline call
    gtopic,     \* the topic argument
    gpc,        \* position in execute_pipeline
    gn,         \* the phase the call is at
    gout,       \* what the execute of phase gn gave: its dictionary, or the exception
    gresults,   \* the local results dictionary
    gcalled,    \* history: the phases whose execute was called, in order
    graised     \* history: the phase whose execute raised, 0 for none

qvars == <<file, wb, pc, topic, outcome, everReset>>

sqlvars == <<priority, sqlStatus, rowLock, txpc, txsnap, txrow, fetched>>

evars == <<eentry, eprior, est, edisk, esave, epc, eph, einvoked, eoutcome, ejob>>

ovars == <<orunPhases, ostatus, opc, otopic, ophase, odone, odoneAtCompleted, oret,
           olooping>>

pvars == <<pN, pmaxWorkers, ppc, psubmitted, ptask, pyielded, presults, pstatus>>

rvars == <<rkind, rmax, rbase, rfactor, rpc, rattempt, rdelay, rlast, rcalls,
           routcomes, rsleeps, rresult>>

avars == <<akind, arows, aloaded, apc, aname, anotes, aret>>

lvars == <<lmax, lcount, lpc, lrow, lavailable, ltopic, loutcome, llast, lprocessed, lreturned>>

ivars == <<irequested, ipc, iexc>>

xvars == <<xrows, xcall, xresult>>

gvars == <<gtopic, gpc, gn, gout, gresults, gcalled, graised>>

vars == <<qvars, sqlvars, evars, ovars, pvars, rvars, avars, lvars, ivars, xvars, gvars>>

\* What the steps of one subsystem leave alone: the other subsystems.
notq == <<sqlvars, evars, ovars, pvars, rvars, avars, lvars, ivars, xvars, gvars>>

notsql == <<qvars, evars, ovars, pvars, rvars, avars, lvars, ivars, xvars, gvars>>

note == <<qvars, sqlvars, ovars, pvars, rvars, avars, lvars, ivars, xvars, gvars>>

noto == <<qvars, sqlvars, evars, pvars, rvars, avars, lvars, ivars, xvars, gvars>>

notp == <<qvars, sqlvars, evars, ovars, rvars, avars, lvars, ivars, xvars, gvars>>

notr == <<qvars, sqlvars, evars, ovars, pvars, avars, lvars, ivars, xvars, gvars>>

nota == <<qvars, sqlvars, evars, ovars, pvars, rvars, lvars, ivars, xvars, gvars>>

notl == <<qvars, sqlvars, evars, ovars, pvars, rvars, avars, ivars, xvars, gvars>>

noti == <<qvars, sqlvars, evars, ovars, pvars, rvars, avars, lvars, xvars, gvars>>

notx == <<qvars, sqlvars, evars, ovars, pvars, rvars, avars, lvars, ivars, gvars>>

notg == <<qvars, sqlvars, evars, ovars, pvars, rvars, avars, lvars, ivars, xvars>>

\* What a step of run_for_topic_id leaves alone.
notoi == <<qvars, sqlvars, evars, pvars, rvars, avars, lvars, xvars, gvars>>

\* ------------------------------------------------------------ State object
\* State.__init__: current_phase "Phase_0", no phase completed, no error.
\* current_phase n stands for the string "Phase_n".
NewState(t) ==
    [topic |-> t, current_phase |-> 0, phases_completed |-> <<>>, errors |-> <<>>]

NoState == [topic |-> 0, current_phase |-> 0, phases_completed |-> <<>>, errors |-> <<>>]

\* execute_phases, the two statements before the handler runs.
PhaseStartState(s, n) == [s EXCEPT !.current_phase = n]

\* A handler's return that leaves phases_completed as it was.
PhaseNotRecorded(s, n) == s

\* execute_phases, the statement after the handler returned.
PhaseDoneState(s, n) == [s EXCEPT !.phases_completed = Append(@, n)]

\* execute_phases, the except branch: error_msg = "Error in Phase_n: " + str(e).
PhaseErrorState(s, n, text) == [s EXCEPT !.errors = Append(@, <<n, text>>)]

\* ------------------------------------------------------------- Excel rows
\* A row of the sheet. Spec and LiveSpec keep the columns the queue
\* operations read and branch on (Status, Timestamp_Start); the row index is
\* the topic. ExecSpec keeps Status, Error_Message and Notes of its one row.
NewRow == [status |-> STATUS_PENDING, ts |-> "none"]

\* get_next_pending_topic: the row the scan stops at, 0 for None.
IsStale(row) == row.status = STATUS_IN_PROGRESS /\ row.ts = "stale"

\* A scan that takes Pending rows only and passes over stale locks.
ClaimablePendingOnly(row) == row.status = STATUS_PENDING

\* The rows the scan returns: Pending ones, and In_Progress ones whose
\* timestamp is older than lock_timeout.
Claimable(row) == row.status = STATUS_PENDING \/ IsStale(row)

GetNextResult(rows) ==
    IF \E i \in DOMAIN rows : Claimable(rows[i])
    THEN CHOOSE i \in DOMAIN rows :
            /\ Claimable(rows[i])
            /\ \A j \in DOMAIN rows : j < i => ~Claimable(rows[j])
    ELSE 0

\* get_next_pending_topic: the cells written when the row found is stale.
ResetRow(row) == [row EXCEPT !.status = STATUS_PENDING, !.ts = "none"]

\* claim_topic: the cells written by the write phase.
ClaimRow(row) == [row EXCEPT !.status = STATUS_IN_PROGRESS, !.ts = "fresh"]

\* update_status: Status is always written, Error_Message and Notes only when
\* the argument is truthy; a column the row does not keep is left out.
UpdateRow(row, status, error_message, notes) ==
    [f \in DOMAIN row |->
        CASE f = "status" -> status
          [] f = "err" /\ error_message # "" -> error_message
          [] f = "notes" /\ notes # "" -> notes
          [] OTHER -> row[f]]

\* process_topic: the arguments of its two update_status calls.
CompletedOutcome == [status |-> STATUS_COMPLETED, text |-> "", notes |-> "Completed"]

FailedOutcome(text) == [status |-> STATUS_FAILED, text |-> text, notes |-> "Failed"]

NoOutcome == [status |-> "", text |-> "", notes |-> ""]

\* ------------------------------------------------ OrchestratorWorkflow.run
Live(w) == pc[w] # "crashed"

\* Between claim_topic returning True and the end of update_status.
Owning == {"process", "update_load", "update_save"}

\* get_next_pending_topic: load_workbook.
GetNextLoad(w) ==
    /\ pc[w] = "poll"
    /\ wb' = [wb EXCEPT ![w] = file]
    /\ pc' = [pc EXCEPT ![w] = "scan"]
    /\ UNCHANGED <<file, topic, outcome, everReset>>
    /\ UNCHANGED notq

\* get_next_pending_topic: the scan of the loaded rows and its return; a
\* stale row is reset in the loaded workbook, which is saved over the file.
GetNextReturn(w) ==
    /\ pc[w] = "scan"
    /\ LET r == GetNextResult(wb[w]) IN
        /\ topic' = [topic EXCEPT ![w] = r]
        /\ pc' = [pc EXCEPT ![w] = IF r = 0 THEN "poll" ELSE "claim_read"]
        /\ IF r # 0 /\ IsStale(wb[w][r])
           THEN /\ file' = [wb[w] EXCEPT ![r] = ResetRow(@)]
                /\ everReset' = everReset \cup {r}
           ELSE UNCHANGED <<file, everReset>>
    /\ wb' = [wb EXCEPT ![w] = NoWb]
    /\ UNCHANGED <<outcome>>
    /\ UNCHANGED notq

\* claim_topic, read phase and check phase: False unless the row is Pending.
ClaimRead(w) ==
    /\ pc[w] = "claim_read"
    /\ IF file[topic[w]].status = STATUS_PENDING
       THEN /\ pc' = [pc EXCEPT ![w] = "claim_recheck"]
            /\ UNCHANGED topic
       ELSE /\ pc' = [pc EXCEPT ![w] = "poll"]
            /\ topic' = [topic EXCEPT ![w] = 0]
    /\ UNCHANGED <<file, wb, outcome, everReset>>
    /\ UNCHANGED notq

\* claim_topic, write phase: the second load_workbook and the re-check.
ClaimRecheck(w) ==
    /\ pc[w] = "claim_recheck"
    /\ IF file[topic[w]].status = STATUS_PENDING
       THEN /\ wb' = [wb EXCEPT ![w] = file]
            /\ pc' = [pc EXCEPT ![w] = "claim_save"]
            /\ UNCHANGED topic
       ELSE /\ pc' = [pc EXCEPT ![w] = "poll"]
            /\ topic' = [topic EXCEPT ![w] = 0]
            /\ UNCHANGED wb
    /\ UNCHANGED <<file, outcome, everReset>>
    /\ UNCHANGED notq

\* claim_topic, write phase: the cells are set and the workbook loaded by the
\* re-check is saved over the file; returns True.
ClaimSave(w) ==
    /\ pc[w] = "claim_save"
    /\ file' = [wb[w] EXCEPT ![topic[w]] = ClaimRow(@)]
    /\ wb' = [wb EXCEPT ![w] = NoWb]
    /\ pc' = [pc EXCEPT ![w] = "process"]
    /\ UNCHANGED <<topic, outcome, everReset>>
    /\ UNCHANGED notq

\* process_topic up to the call of update_status: the workspace, the State
\* and the eight phases touch only files of the run's own new workspace
\* (ExecSpec has them step by step); what reaches the queue is the status,
\* Completed when no handler raised and Failed otherwise.
ProcessTopic(w) ==
    /\ pc[w] = "process"
    /\ \E o \in {CompletedOutcome} \cup {FailedOutcome(text) : text \in ExcTexts} :
        outcome' = [outcome EXCEPT ![w] = o]
    /\ pc' = [pc EXCEPT ![w] = "update_load"]
    /\ UNCHANGED <<file, wb, topic, everReset>>
    /\ UNCHANGED notq

\* update_status: load_workbook.
UpdateLoad(w) ==
    /\ pc[w] = "update_load"
    /\ wb' = [wb EXCEPT ![w] = file]
    /\ pc' = [pc EXCEPT ![w] = "update_save"]
    /\ UNCHANGED <<file, topic, outcome, everReset>>
    /\ UNCHANGED notq

\* update_status: the cells are written and the workbook saved; run goes back
\* to polling.
UpdateSave(w) ==
    /\ pc[w] = "update_save"
    /\ file' = [wb[w] EXCEPT ![topic[w]] = UpdateRow(@, outcome[w].status, outcome[w].text, outcome[w].notes)]
    /\ wb' = [wb EXCEPT ![w] = NoWb]
    /\ outcome' = [outcome EXCEPT ![w] = NoOutcome]
    /\ topic' = [topic EXCEPT ![w] = 0]
    /\ pc' = [pc EXCEPT ![w] = "poll"]
    /\ UNCHANGED everReset
    /\ UNCHANGED notq

\* The worker process dies. A worker that dies between its claim and the
\* end of update_status leaves the row as it is; topic[w] keeps what it owned.
Crash(w) ==
    /\ Live(w)
    /\ \E v \in Workers : v # w /\ Live(v)
    /\ pc' = [pc EXCEPT ![w] = "crashed"]
    /\ topic' = [topic EXCEPT ![w] = IF pc[w] \in Owning THEN @ ELSE 0]
    /\ wb' = [wb EXCEPT ![w] = NoWb]
    /\ outcome' = [outcome EXCEPT ![w] = NoOutcome]
    /\ UNCHANGED <<file, everReset>>
    /\ UNCHANGED notq

\* lock_timeout elapses: every timestamp written so far is now older than
\* lock_timeout, in the file and in the workbooks loaded from it.
AgeRows(rows) ==
    [i \in DOMAIN rows |-> IF rows[i].ts = "fresh" THEN [rows[i] EXCEPT !.ts = "stale"] ELSE rows[i]]

Tick ==
    /\ \E i \in Topics : file[i].ts = "fresh"
    /\ file' = AgeRows(file)
    /\ wb' = [w \in Workers |-> AgeRows(wb[w])]
    /\ UNCHANGED <<pc, topic, outcome, everReset>>
    /\ UNCHANGED notq

QueueInit ==
    /\ file = [i \in Topics |-> NewRow]
    /\ wb = [w \in Workers |-> NoWb]
    /\ pc = [w \in Workers |-> "poll"]
    /\ topic = [w \in Workers |-> 0]
    /\ outcome = [w \in Workers |-> NoOutcome]
    /\ everReset = {}

WorkerStep(w) ==
    \/ GetNextLoad(w)
    \/ GetNextReturn(w)
    \/ ClaimRead(w)
    \/ ClaimRecheck(w)
    \/ ClaimSave(w)
    \/ ProcessTopic(w)
    \/ UpdateLoad(w)
    \/ UpdateSave(w)

QueueNext ==
    \/ \E w \in Workers : WorkerStep(w)
    \/ \E w \in Workers : Crash(w)
    \/ Tick

\* ------------------------------------- db/topic_repository.py, the SQL store
\* The rows of the topics table are the ids 1..NumTopics; the callers of
\* fetch_next_topic are the workers.
\* An ORDER BY id ASC alone.
BeforeById(r, q) == r < q

\* ORDER BY priority DESC, id ASC.
Before(r, q) ==
    \/ priority[r] > priority[q]
    \/ priority[r] = priority[q] /\ r < q

\* fetch_next_topic, the SELECT: of the rows that are 'pending' in the
\* statement's snapshot, in ORDER BY priority DESC, id ASC, the first one
\* whose row lock is free (SKIP LOCKED) and that is still 'pending' once
\* locked (FOR UPDATE reads the latest committed row); 0 when there is none.
Lockable(c, r) ==
    /\ txsnap[c][r] = "pending"
    /\ rowLock[r] = 0
    /\ sqlStatus[r] = "pending"

\* The same SELECT without FOR UPDATE SKIP LOCKED: the first row that is
\* 'pending' in the snapshot, locked or not.
SelectUnlocked(c) ==
    IF \E r \in Topics : txsnap[c][r] = "pending"
    THEN CHOOSE r \in Topics :
            /\ txsnap[c][r] = "pending"
            /\ \A q \in Topics : txsnap[c][q] = "pending" /\ q # r => Before(r, q)
    ELSE 0

SelectForUpdate(c) ==
    IF \E r \in Topics : Lockable(c, r)
    THEN CHOOSE r \in Topics :
            /\ Lockable(c, r)
            /\ \A q \in Topics : Lockable(c, q) /\ q # r => Before(r, q)
    ELSE 0

\* fetch_next_topic: conn.begin() and the snapshot the SELECT runs on.
TxBegin(c) ==
    /\ txpc[c] = "idle"
    /\ txsnap' = [txsnap EXCEPT ![c] = sqlStatus]
    /\ txpc' = [txpc EXCEPT ![c] = "select"]
    /\ UNCHANGED <<priority, sqlStatus, rowLock, txrow, fetched>>
    /\ UNCHANGED notsql

\* fetch_next_topic: the SELECT returns; no row means return None, and the
\* transaction commits with nothing written.
TxSelect(c) ==
    /\ txpc[c] = "select"
    /\ LET r == SelectForUpdate(c) IN
        /\ txrow' = [txrow EXCEPT ![c] = r]
        /\ rowLock' = IF r = 0 THEN rowLock ELSE [rowLock EXCEPT ![r] = c]
        /\ txpc' = [txpc EXCEPT ![c] = IF r = 0 THEN "idle" ELSE "update"]
    /\ txsnap' = [txsnap EXCEPT ![c] = <<>>]
    /\ UNCHANGED <<priority, sqlStatus, fetched>>
    /\ UNCHANGED notsql

\* fetch_next_topic: the UPDATE and the commit at the end of the with block;
\* the TopicJob is returned.
TxCommit(c) ==
    /\ txpc[c] = "update"
    /\ sqlStatus' = [sqlStatus EXCEPT ![txrow[c]] = "in_progress"]
    /\ rowLock' = [rowLock EXCEPT ![txrow[c]] = 0]
    /\ fetched' = [fetched EXCEPT ![c] = @ \cup {txrow[c]}]
    /\ txrow' = [txrow EXCEPT ![c] = 0]
    /\ txpc' = [txpc EXCEPT ![c] = "idle"]
    /\ UNCHANGED <<priority, txsnap>>
    /\ UNCHANGED notsql

\* fetch_next_topic: a SQLAlchemyError leaves the with block; the transaction
\* rolls back and the error is raised.
TxRollback(c) ==
    /\ txpc[c] = "update"
    /\ rowLock' = [rowLock EXCEPT ![txrow[c]] = 0]
    /\ txrow' = [txrow EXCEPT ![c] = 0]
    /\ txpc' = [txpc EXCEPT ![c] = "idle"]
    /\ UNCHANGED <<priority, sqlStatus, txsnap, fetched>>
    /\ UNCHANGED notsql

\* mark_topic_done and mark_topic_failed, called for a topic the caller was
\* handed: one UPDATE by id in its own transaction.
MarkTopic(c) ==
    /\ txpc[c] = "idle"
    /\ \E r \in fetched[c] : \E status \in {"completed", "failed"} :
        /\ sqlStatus[r] = "in_progress"
        /\ rowLock[r] = 0
        /\ sqlStatus' = [sqlStatus EXCEPT ![r] = status]
    /\ UNCHANGED <<priority, rowLock, txpc, txsnap, txrow, fetched>>
    /\ UNCHANGED notsql

SqlIdle ==
    /\ sqlStatus = [r \in Topics |-> "pending"]
    /\ rowLock = [r \in Topics |-> 0]
    /\ txpc = [c \in Workers |-> "idle"]
    /\ txsnap = [c \in Workers |-> <<>>]
    /\ txrow = [c \in Workers |-> 0]
    /\ fetched = [c \in Workers |-> {}]


SqlNext ==
    \E c \in Workers :
        \/ TxBegin(c)
        \/ TxSelect(c)
        \/ TxCommit(c)
        \/ TxRollback(c)
        \/ MarkTopic(c)

\* ------------------------------- process_topic and execute_phases, one run
\* What a run that completed phases 1..k left in its state.json.
PriorState(k) ==
    [topic |-> 1, current_phase |-> k, phases_completed |-> [i \in 1..k |-> i],
     errors |-> <<>>]

AbsentFile == [form |-> "absent", data |-> NoState]

\* save_state writes state.json in place: open(path, "w") empties the file,
\* json.dump fills it through the file buffer, leaving the with block writes
\* the rest.
OpenedFile == [form |-> "empty", data |-> NoState]

FlushedFile == [form |-> "partial", data |-> NoState]

ClosedFile(s) == [form |-> "full", data |-> s]

SavePositions == {"save_created", "save_start", "save_done", "save_error"}

\* process_topic: create_workspace makes a new directory named by uuid4 and
\* State(topic) is a new object; no state.json of the topic is looked up.
ProcessTopicBegin ==
    /\ epc = "start"
    /\ eentry = "process_topic"
    /\ est' = NewState(1)
    /\ epc' = "save_created"
    /\ UNCHANGED <<eentry, eprior, edisk, esave, eph, einvoked, eoutcome, ejob>>
    /\ UNCHANGED note

\* execute_phases called with the State it is given.
ExecutePhasesBegin ==
    /\ epc = "start"
    /\ eentry = "execute_phases"
    /\ epc' = "loop"
    /\ UNCHANGED <<eentry, eprior, est, edisk, esave, eph, einvoked, eoutcome, ejob>>
    /\ UNCHANGED note

\* save_state: open(state_path, "w").
SaveOpen ==
    /\ epc \in SavePositions
    /\ esave = "idle"
    /\ edisk' = OpenedFile
    /\ esave' = "opened"
    /\ UNCHANGED <<eentry, eprior, est, epc, eph, einvoked, eoutcome, ejob>>
    /\ UNCHANGED note

\* save_state: json.dump has filled the file buffer, which is written out.
SaveFlush ==
    /\ epc \in SavePositions
    /\ esave = "opened"
    /\ edisk' = FlushedFile
    /\ esave' = "flushed"
    /\ UNCHANGED <<eentry, eprior, est, epc, eph, einvoked, eoutcome, ejob>>
    /\ UNCHANGED note

\* save_state: the with block is left, the file is complete; the caller goes
\* on. After the save of the except branch the exception is raised again:
\* process_topic catches it and reports Failed with str(e).
SaveClose ==
    /\ epc \in SavePositions
    /\ esave \in {"opened", "flushed"}
    /\ edisk' = ClosedFile(est)
    /\ esave' = "idle"
    /\ epc' = CASE epc = "save_created" -> "loop"
                [] epc = "save_start" -> "handler"
                [] epc = "save_done" -> "loop"
                [] epc = "save_error" ->
                    IF eentry = "process_topic" THEN "report" ELSE "returned"
    /\ UNCHANGED <<eentry, eprior, est, eph, einvoked, eoutcome, ejob>>
    /\ UNCHANGED note

\* execute_phases: the for loop takes the next entry of phases, whatever
\* state.phases_completed holds, and sets current_phase.
LoopNext ==
    /\ epc = "loop"
    /\ eph < NumPhases
    /\ eph' = eph + 1
    /\ est' = PhaseStartState(est, eph + 1)
    /\ epc' = "save_start"
    /\ UNCHANGED <<eentry, eprior, edisk, esave, einvoked, eoutcome, ejob>>
    /\ UNCHANGED note

\* execute_phases: the loop is over; process_topic reports Completed.
LoopEnd ==
    /\ epc = "loop"
    /\ eph = NumPhases
    /\ eoutcome' = CompletedOutcome
    /\ epc' = IF eentry = "process_topic" THEN "report" ELSE "returned"
    /\ UNCHANGED <<eentry, eprior, est, edisk, esave, eph, einvoked, ejob>>
    /\ UNCHANGED note

\* execute_phases: phase_func(state) returns and the phase is appended.
HandlerReturn ==
    /\ epc = "handler"
    /\ einvoked' = Append(einvoked, eph)
    /\ est' = PhaseDoneState(est, eph)
    /\ epc' = "save_done"
    /\ UNCHANGED <<eentry, eprior, edisk, esave, eph, eoutcome, ejob>>
    /\ UNCHANGED note

\* execute_phases: phase_func(state) raises; the except branch appends the
\* error message.
HandlerRaise ==
    /\ epc = "handler"
    /\ \E text \in ExcTexts :
        /\ est' = PhaseErrorState(est, eph, text)
        /\ eoutcome' = FailedOutcome(text)
    /\ einvoked' = Append(einvoked, eph)
    /\ epc' = "save_error"
    /\ UNCHANGED <<eentry, eprior, edisk, esave, eph, ejob>>
    /\ UNCHANGED note

\* process_topic: update_status with the outcome; process_topic returns.
Report ==
    /\ epc = "report"
    /\ ejob' = UpdateRow(ejob, eoutcome.status, eoutcome.text, eoutcome.notes)
    /\ epc' = "done"
    /\ UNCHANGED <<eentry, eprior, est, edisk, esave, eph, einvoked, eoutcome>>
    /\ UNCHANGED note

\* The worker process dies in the middle of the run.
ExecCrash ==
    /\ epc \notin {"start", "done", "returned", "crashed"}
    /\ epc' = "crashed"
    /\ UNCHANGED <<eentry, eprior, est, edisk, esave, eph, einvoked, eoutcome, ejob>>
    /\ UNCHANGED note

\* ------------------------- orchestrator/orchestrator.py, run_for_next_topic
\* The pipeline of Orchestrator: Phase 1 gets the next pending topic, Phases
\* 2..7 plan, research, script, generate assets, assemble and publish, Phase
\* 8 cleans up.
RunPhasesModes == {"all", "script_only", "assets_only", "video_only"}

\* The phase after which run_for_next_topic marks the topic completed and
\* returns, under settings.run_phases; 7 (publishing) when it runs them all.
LastPhaseRun(mode) ==
    CASE mode = "script_only" -> 4
      [] mode = "assets_only" -> 5
      [] mode = "video_only" -> 6
      [] OTHER -> 7

\* repository get_next_pending_topic: the oldest 'pending' row (ids are in
\* creation order), 0 for None.
OldestPending(status) ==
    IF \E t \in Topics : status[t] = "pending"
    THEN CHOOSE t \in Topics :
            /\ status[t] = "pending"
            /\ \A u \in Topics : status[u] = "pending" => t <= u
    ELSE 0

\* run_continuous: `if not processed: break`; max_iterations is None.
Continues(looping, processed) == looping /\ processed = "True"

\* run_continuous calls run_for_next_topic; Phase 1 finds no pending topic:
\* the method returns False and the loop is left.
OrchNoTopic(w) ==
    /\ opc[w] = "idle"
    /\ olooping[w]
    /\ OldestPending(ostatus) = 0
    /\ oret' = [oret EXCEPT ![w] = "False"]
    /\ olooping' = [olooping EXCEPT ![w] = Continues(@, "False")]
    /\ UNCHANGED <<orunPhases, ostatus, opc, otopic, ophase, odone, odoneAtCompleted>>
    /\ UNCHANGED noto

\* run_continuous calls run_for_next_topic; Phase 1, a topic is returned.
OrchGetNext(w) ==
    /\ opc[w] = "idle"
    /\ olooping[w]
    /\ OldestPending(ostatus) # 0
    /\ otopic' = [otopic EXCEPT ![w] = OldestPending(ostatus)]
    /\ odone' = [odone EXCEPT ![w] = {1}]
    /\ opc' = [opc EXCEPT ![w] = "mark"]
    /\ UNCHANGED <<orunPhases, ostatus, ophase, odoneAtCompleted, oret, olooping>>
    /\ UNCHANGED noto

\* run_for_next_topic: mark_topic_in_progress, then Phase 2 starts.
OrchMarkInProgress(w) ==
    /\ opc[w] = "mark"
    /\ ostatus' = [ostatus EXCEPT ![otopic[w]] = "in_progress"]
    /\ ophase' = [ophase EXCEPT ![w] = 2]
    /\ opc' = [opc EXCEPT ![w] = "phase"]
    /\ UNCHANGED <<orunPhases, otopic, odone, odoneAtCompleted, oret, olooping>>
    /\ UNCHANGED noto

\* run_for_next_topic: the call of one of Phases 2..7 returns; after the last
\* phase of the configured mode comes mark_topic_completed.
OrchPhaseReturn(w) ==
    /\ opc[w] = "phase"
    /\ odone' = [odone EXCEPT ![w] = @ \cup {ophase[w]}]
    /\ IF ophase[w] = LastPhaseRun(orunPhases)
       THEN /\ opc' = [opc EXCEPT ![w] = "mark_completed"]
            /\ ophase' = [ophase EXCEPT ![w] = 0]
       ELSE /\ ophase' = [ophase EXCEPT ![w] = @ + 1]
            /\ UNCHANGED opc
    /\ UNCHANGED <<orunPhases, ostatus, otopic, odoneAtCompleted, oret, olooping>>
    /\ UNCHANGED noto

\* run_for_next_topic: a phase, or the cleanup of Phase 8, raises; the except
\* branch is entered.
OrchPhaseRaise(w) ==
    /\ opc[w] \in {"phase", "cleanup"}
    /\ ophase' = [ophase EXCEPT ![w] = 0]
    /\ opc' = [opc EXCEPT ![w] = "mark_failed"]
    /\ UNCHANGED <<orunPhases, ostatus, otopic, odone, odoneAtCompleted, oret, olooping>>
    /\ UNCHANGED noto

\* run_for_next_topic: mark_topic_completed. In the modes that stop early
\* the method returns True; otherwise Phase 8, cleanup, follows.
OrchMarkCompleted(w) ==
    /\ opc[w] = "mark_completed"
    /\ ostatus' = [ostatus EXCEPT ![otopic[w]] = "completed"]
    /\ odoneAtCompleted' = [odoneAtCompleted EXCEPT ![otopic[w]] = odone[w]]
    /\ IF orunPhases \in {"script_only", "assets_only", "video_only"}
       THEN /\ opc' = [opc EXCEPT ![w] = "idle"]
            /\ otopic' = [otopic EXCEPT ![w] = 0]
            /\ odone' = [odone EXCEPT ![w] = {}]
            /\ oret' = [oret EXCEPT ![w] = "True"]
            /\ UNCHANGED ophase
       ELSE /\ opc' = [opc EXCEPT ![w] = "cleanup"]
            /\ ophase' = [ophase EXCEPT ![w] = 8]
            /\ UNCHANGED <<otopic, odone, oret>>
    /\ UNCHANGED <<orunPhases, olooping>>
    /\ UNCHANGED noto

\* run_for_next_topic: cleanup_for_topic returns, the method returns True.
OrchCleanupReturn(w) ==
    /\ opc[w] = "cleanup"
    /\ opc' = [opc EXCEPT ![w] = "idle"]
    /\ otopic' = [otopic EXCEPT ![w] = 0]
    /\ ophase' = [ophase EXCEPT ![w] = 0]
    /\ odone' = [odone EXCEPT ![w] = {}]
    /\ oret' = [oret EXCEPT ![w] = "True"]
    /\ UNCHANGED <<orunPhases, ostatus, odoneAtCompleted, olooping>>
    /\ UNCHANGED noto

\* run_for_next_topic, the except branch: mark_topic_failed, the method
\* returns False and run_continuous leaves its loop.
OrchMarkFailed(w) ==
    /\ opc[w] = "mark_failed"
    /\ ostatus' = [ostatus EXCEPT ![otopic[w]] = "failed"]
    /\ opc' = [opc EXCEPT ![w] = "idle"]
    /\ otopic' = [otopic EXCEPT ![w] = 0]
    /\ odone' = [odone EXCEPT ![w] = {}]
    /\ oret' = [oret EXCEPT ![w] = "False"]
    /\ olooping' = [olooping EXCEPT ![w] = Continues(@, "False")]
    /\ UNCHANGED <<orunPhases, ophase, odoneAtCompleted>>
    /\ UNCHANGED noto

OrchIdle ==
    /\ orunPhases = ""
    /\ ostatus = <<>>
    /\ opc = <<>>
    /\ otopic = <<>>
    /\ ophase = <<>>
    /\ odone = <<>>
    /\ odoneAtCompleted = <<>>
    /\ oret = <<>>
    /\ olooping = <<>>

OrchNext ==
    \E w \in Workers :
        \/ OrchNoTopic(w)
        \/ OrchGetNext(w)
        \/ OrchMarkInProgress(w)
        \/ OrchPhaseReturn(w)
        \/ OrchPhaseRaise(w)
        \/ OrchMarkCompleted(w)
        \/ OrchCleanupReturn(w)
        \/ OrchMarkFailed(w)

\* ------------------- phases/phase2_parallel_research.py, execute
\* The futures are named by their index of submission, 1..pN. A future is
\* "unsubmitted", "queued" in the executor's work queue, "running" in a
\* pool thread, and then "ok" (_research_query returned) or "error" (it
\* raised).
Queries == 1..MaxQueries

Running(tasks) == {i \in Queries : tasks[i] = "running"}

\* A future as_completed may yield: one that is a future that is running,
\* as well as a finished one.
DoneOrRunning(st) == st \in {"ok", "error", "running"}

\* A future as_completed may yield, and shutdown(wait=True) has waited for.
Done(st) == st \in {"ok", "error"}

\* A pool that starts a queued work item whatever the number running.
SlotAlways(tasks, max_workers) == TRUE

\* ThreadPoolExecutor(max_workers=self.max_workers): a queued work item is
\* taken when fewer than max_workers threads are running one.
SlotFree(tasks, max_workers) == Cardinality(Running(tasks)) < max_workers

\* len(str(e)) of an exception that is caught and recorded.
MsgLengths == 0..MaxMsgLen

\* The lengths str(e) may have for a future in state st; a future that
\* returned has no exception.
TextLengths(st) == IF st = "error" THEN MsgLengths ELSE {0}

\* A loop body that appends nothing when future.result() raised.
AppendedUnlessError(results, i, st, n) ==
    IF st = "error" THEN results
    ELSE Append(results, [task |-> i, kind |-> st, haserror |-> FALSE, errlen |-> 0])

\* execute, the body of the as_completed loop: the result of the future, or
\* the dictionary with "error": str(e) when future.result() raised, is
\* appended; n is the length of str(e).
Appended(results, i, st, n) ==
    Append(results, [task |-> i, kind |-> st, haserror |-> (st = "error"), errlen |-> n])

\* execute: `not r.get("error")`, true of a result without the key and of
\* one whose error text is empty.
NotError(r) == ~r.haserror \/ r.errlen = 0

\* execute: "successful_queries" of the returned dictionary.
SuccessfulQueries(results) ==
    Cardinality({j \in DOMAIN results : NotError(results[j])})

\* execute: sub_queries is empty, the failed dictionary is returned.
ParEmpty ==
    /\ ppc = "start"
    /\ pN = 0
    /\ ppc' = "returned"
    /\ pstatus' = "failed"
    /\ UNCHANGED <<pN, pmaxWorkers, psubmitted, ptask, pyielded, presults>>
    /\ UNCHANGED notp

\* execute: the dictionary comprehension submits the next query.
ParSubmit ==
    /\ ppc = "start"
    /\ psubmitted < pN
    /\ psubmitted' = psubmitted + 1
    /\ ptask' = [ptask EXCEPT ![psubmitted + 1] = "queued"]
    /\ UNCHANGED <<pN, pmaxWorkers, ppc, pyielded, presults, pstatus>>
    /\ UNCHANGED notp

\* execute: every query is submitted, the as_completed loop is entered.
ParSubmitted ==
    /\ ppc = "start"
    /\ pN > 0
    /\ psubmitted = pN
    /\ ppc' = "collect"
    /\ UNCHANGED <<pN, pmaxWorkers, psubmitted, ptask, pyielded, presults, pstatus>>
    /\ UNCHANGED notp

\* A pool thread takes the oldest queued work item.
TaskStart(i) ==
    /\ ptask[i] = "queued"
    /\ \A j \in 1..(i - 1) : ptask[j] # "queued"
    /\ SlotFree(ptask, pmaxWorkers)
    /\ ptask' = [ptask EXCEPT ![i] = "running"]
    /\ UNCHANGED <<pN, pmaxWorkers, ppc, psubmitted, pyielded, presults, pstatus>>
    /\ UNCHANGED notp

\* _research_query returns its dictionary.
TaskReturn(i) ==
    /\ ptask[i] = "running"
    /\ ptask' = [ptask EXCEPT ![i] = "ok"]
    /\ UNCHANGED <<pN, pmaxWorkers, ppc, psubmitted, pyielded, presults, pstatus>>
    /\ UNCHANGED notp

\* _research_query raises.
TaskRaise(i) ==
    /\ ptask[i] = "running"
    /\ ptask' = [ptask EXCEPT ![i] = "error"]
    /\ UNCHANGED <<pN, pmaxWorkers, ppc, psubmitted, pyielded, presults, pstatus>>
    /\ UNCHANGED notp

\* execute: as_completed yields a finished future that it has not yielded
\* yet, and the loop body appends to research_results.
ParCollect(i) ==
    /\ ppc = "collect"
    /\ Done(ptask[i])
    /\ i \notin pyielded
    /\ pyielded' = pyielded \cup {i}
    /\ \E n \in TextLengths(ptask[i]) : presults' = Appended(presults, i, ptask[i], n)
    /\ UNCHANGED <<pN, pmaxWorkers, ppc, psubmitted, ptask, pstatus>>
    /\ UNCHANGED notp

\* execute: as_completed has yielded every future; the with block is left.
ParLoopEnd ==
    /\ ppc = "collect"
    /\ pyielded = 1..psubmitted
    /\ ppc' = "shutdown"
    /\ UNCHANGED <<pN, pmaxWorkers, psubmitted, ptask, pyielded, presults, pstatus>>
    /\ UNCHANGED notp

\* execute: shutdown(wait=True) has joined the pool threads; the completed
\* dictionary is returned.
ParExit ==
    /\ ppc = "shutdown"
    /\ \A i \in 1..psubmitted : Done(ptask[i])
    /\ ppc' = "returned"
    /\ pstatus' = "completed"
    /\ UNCHANGED <<pN, pmaxWorkers, psubmitted, ptask, pyielded, presults>>
    /\ UNCHANGED notp

ParIdle ==
    /\ pN = 0
    /\ pmaxWorkers = 0
    /\ ppc = "idle"
    /\ psubmitted = 0
    /\ ptask = <<>>
    /\ pyielded = {}
    /\ presults = <<>>
    /\ pstatus = ""

\* The steps of the pool threads.
PoolStep ==
    \E i \in Queries :
        \/ TaskStart(i)
        \/ TaskReturn(i)
        \/ TaskRaise(i)

\* The steps of the thread that called execute.
CallerStep ==
    \/ ParEmpty
    \/ ParSubmit
    \/ ParSubmitted
    \/ \E i \in Queries : ParCollect(i)
    \/ ParLoopEnd
    \/ ParExit

ParNext == PoolStep \/ CallerStep

\* ---- utils/helpers.py retry_with_backoff, research/perplexity_client.py,
\* ---- assets/image_generator.py: the retry loops
RECURSIVE Pow(_, _)
\* b ** n
Pow(b, n) == IF n = 0 THEN 1 ELSE b * Pow(b, n - 1)

\* The number of an attempt counting from 0: range(max_retries) counts from
\* 0, range(1, self.max_retries + 1) from 1.
AttemptNumber(kind, attempt) == IF kind = "search" THEN attempt - 1 ELSE attempt

\* The outcome of the invocation made in the attempt with this number.
Outcome(kind, a) == [kind |-> kind, at |-> a]

NoResult == [kind |-> "", value |-> Outcome("", 0)]

Returned(o) == [kind |-> "return", value |-> o]

Raised(o) == [kind |-> "raise", value |-> o]

Slept(a, secs, why, hint) == [after |-> a, secs |-> secs, why |-> why, hint |-> hint]

\* A delay that grows by addition.
NextDelayAdded(delay, factor) == delay + factor

\* retry_with_backoff: delay *= backoff_factor.
NextDelay(delay, factor) == delay * factor

\* A loop that retries at once after the first failure.
SleepsAfterFirstRetry(attempt, max_retries) == 0 < attempt /\ attempt < max_retries - 1

\* A loop that sleeps after every failure, the last one included.
SleepsAfterEvery(attempt, max_retries) == TRUE

\* retry_with_backoff and _generate_image_with_retry: the failure of every
\* attempt but the last is followed by a sleep.
SleepsAfter(attempt, max_retries) == attempt < max_retries - 1

\* int(response.headers.get("Retry-After", 60)).
RetryAfter(hint) == IF hint = NoHint THEN DefaultRetryAfter ELSE hint

\* A wait that adds the computed delay to the hinted one.
RateLimitDelayAdded(hint, base, attempt) == RetryAfter(hint) + Pow(base, attempt)

\* PerplexityClient: time.sleep(retry_after) on a 429 response.
RateLimitDelay(hint, base, attempt) == RetryAfter(hint)

Hints == (1..MaxHint) \cup {NoHint}

\* A loop in which a 429 response repeats the attempt.
SameAttempt(attempt) == attempt

\* search / chat_json: `continue` in `for attempt in range(1, max_retries + 1)`
\* goes on with the next value of attempt.
NextAttempt(attempt) == attempt + 1

\* retry_with_backoff: func returns, the wrapper returns its value.
HelperReturn ==
    /\ rkind = "helper"
    /\ rpc = "attempt"
    /\ rcalls' = rcalls + 1
    /\ routcomes' = Append(routcomes, Outcome("ok", rattempt))
    /\ rresult' = Returned(Outcome("ok", rattempt))
    /\ rpc' = "done"
    /\ UNCHANGED <<rkind, rmax, rbase, rfactor, rattempt, rdelay, rlast, rsleeps>>
    /\ UNCHANGED notr

\* retry_with_backoff: func raises. Before the last attempt the wrapper
\* sleeps delay and multiplies it; after the last one the loop is over and
\* last_exception is raised.
HelperRaise ==
    /\ rkind = "helper"
    /\ rpc = "attempt"
    /\ rcalls' = rcalls + 1
    /\ routcomes' = Append(routcomes, Outcome("error", rattempt))
    /\ rlast' = Outcome("error", rattempt)
    /\ IF SleepsAfter(rattempt, rmax)
       THEN /\ rsleeps' = Append(rsleeps, Slept(rattempt, rdelay, "error", NoHint))
            /\ rdelay' = NextDelay(rdelay, rfactor)
       ELSE UNCHANGED <<rsleeps, rdelay>>
    /\ rattempt' = rattempt + 1
    /\ IF rattempt + 1 < rmax
       THEN UNCHANGED <<rpc, rresult>>
       ELSE /\ rpc' = "done"
            /\ rresult' = Raised(rlast')
    /\ UNCHANGED <<rkind, rmax, rbase, rfactor>>
    /\ UNCHANGED notr

\* search / chat_json: the response is good, the result is returned.
SearchReturn ==
    /\ rkind = "search"
    /\ rpc = "attempt"
    /\ rcalls' = rcalls + 1
    /\ routcomes' = Append(routcomes, Outcome("ok", AttemptNumber(rkind, rattempt)))
    /\ rresult' = Returned(Outcome("ok", AttemptNumber(rkind, rattempt)))
    /\ rpc' = "done"
    /\ UNCHANGED <<rkind, rmax, rbase, rfactor, rattempt, rdelay, rlast, rsleeps>>
    /\ UNCHANGED notr

\* search / chat_json: status 429. The loop sleeps retry_after and continues;
\* when this was the last attempt the loop is over and RuntimeError is
\* raised.
SearchRateLimited ==
    /\ rkind = "search"
    /\ rpc = "attempt"
    /\ rcalls' = rcalls + 1
    /\ routcomes' = Append(routcomes, Outcome("rate_limit", AttemptNumber(rkind, rattempt)))
    /\ \E hint \in Hints :
        rsleeps' = Append(rsleeps, Slept(AttemptNumber(rkind, rattempt),
                                         RateLimitDelay(hint, rbase, rattempt),
                                         "rate", hint))
    /\ rattempt' = NextAttempt(rattempt)
    /\ IF NextAttempt(rattempt) <= rmax
       THEN UNCHANGED <<rpc, rresult>>
       ELSE /\ rpc' = "done"
            /\ rresult' = Raised(Outcome("RuntimeError", rmax))
    /\ UNCHANGED <<rkind, rmax, rbase, rfactor, rdelay, rlast>>
    /\ UNCHANGED notr

\* search / chat_json: requests raises Timeout or another RequestException
\* (raise_for_status included). On the last attempt it is raised again;
\* before, the loop sleeps backoff_base ** attempt.
SearchFail ==
    /\ rkind = "search"
    /\ rpc = "attempt"
    /\ rcalls' = rcalls + 1
    /\ \E k \in {"timeout", "request_error"} :
        /\ routcomes' = Append(routcomes, Outcome(k, AttemptNumber(rkind, rattempt)))
        /\ IF rattempt = rmax
           THEN /\ rpc' = "done"
                /\ rresult' = Raised(Outcome(k, AttemptNumber(rkind, rattempt)))
                /\ UNCHANGED <<rsleeps, rattempt>>
           ELSE /\ rsleeps' = Append(rsleeps, Slept(AttemptNumber(rkind, rattempt),
                                                    Pow(rbase, rattempt), "error", NoHint))
                /\ rattempt' = rattempt + 1
                /\ UNCHANGED <<rpc, rresult>>
    /\ UNCHANGED <<rkind, rmax, rbase, rfactor, rdelay, rlast>>
    /\ UNCHANGED notr

\* _generate_image_with_retry: the API returns image data, the path of the
\* saved image is returned.
ImageReturn ==
    /\ rkind = "image"
    /\ rpc = "attempt"
    /\ rcalls' = rcalls + 1
    /\ routcomes' = Append(routcomes, Outcome("ok", rattempt))
    /\ rresult' = Returned(Outcome("ok", rattempt))
    /\ rpc' = "done"
    /\ UNCHANGED <<rkind, rmax, rbase, rfactor, rattempt, rdelay, rlast, rsleeps>>
    /\ UNCHANGED notr

\* _generate_image_with_retry: the API returns no data ("empty", the loop
\* goes on at once) or raises ("error", the loop sleeps image_retry_delay
\* unless this was the last attempt). After the loop None is returned.
ImageFail ==
    /\ rkind = "image"
    /\ rpc = "attempt"
    /\ rcalls' = rcalls + 1
    /\ \E k \in {"empty", "error"} :
        /\ routcomes' = Append(routcomes, Outcome(k, rattempt))
        /\ IF k = "error" /\ SleepsAfter(rattempt, rmax)
           THEN rsleeps' = Append(rsleeps, Slept(rattempt, rbase, "error", NoHint))
           ELSE UNCHANGED rsleeps
    /\ rattempt' = rattempt + 1
    /\ IF rattempt + 1 < rmax
       THEN UNCHANGED <<rpc, rresult>>
       ELSE /\ rpc' = "done"
            /\ rresult' = Returned(Outcome("None", rmax))
    /\ UNCHANGED <<rkind, rmax, rbase, rfactor, rdelay, rlast>>
    /\ UNCHANGED notr

RetryIdle ==
    /\ rkind = ""
    /\ rmax = 0
    /\ rbase = 0
    /\ rfactor = 0
    /\ rpc = "idle"
    /\ rattempt = 0
    /\ rdelay = 0
    /\ rlast = Outcome("", 0)
    /\ rcalls = 0
    /\ routcomes = <<>>
    /\ rsleeps = <<>>
    /\ rresult = NoResult

RetryNext ==
    \/ HelperReturn
    \/ HelperRaise
    \/ SearchReturn
    \/ SearchRateLimited
    \/ SearchFail
    \/ ImageReturn
    \/ ImageFail


\* ------ enqueue: JobQueue.add_topic, ExcelQueueManager.add_topic,
\* ------ repository TopicRepository.create_topic
TopicNames == {"T1", "T2"}

NoteTexts == {"", "note"}

StoreKinds == {"JobQueue", "ExcelQueueManager", "TopicRepository"}

\* The value each store writes in the status column of a new row.
PendingOf(kind) == IF kind = "JobQueue" THEN STATUS_PENDING ELSE "pending"

CompletedOf(kind) == IF kind = "JobQueue" THEN STATUS_COMPLETED ELSE "completed"

\* The cells an enqueue writes: topic, status, notes.
AddedRow(kind, name, notes) == [topic |-> name, status |-> PendingOf(kind), notes |-> notes]

\* A scan that notices a topic only while its row is Pending.
ExistsPending(rows, name) ==
    \E i \in DOMAIN rows : rows[i].topic = name /\ rows[i].status = STATUS_PENDING

\* JobQueue.add_topic, the scan of the Topic column.
Exists(rows, name) == \E i \in DOMAIN rows : rows[i].topic = name

NoReturn == [value |-> "", log |-> ""]

\* JobQueue.add_topic / ExcelQueueManager.add_topic: load_workbook /
\* pd.read_excel.
AddLoad(c) ==
    /\ akind \in {"JobQueue", "ExcelQueueManager"}
    /\ apc[c] = "idle"
    /\ Len(arows) < MaxRows
    /\ \E name \in TopicNames : \E notes \in NoteTexts :
        /\ aname' = [aname EXCEPT ![c] = name]
        /\ anotes' = [anotes EXCEPT ![c] = notes]
    /\ aloaded' = [aloaded EXCEPT ![c] = arows]
    /\ apc' = [apc EXCEPT ![c] = "loaded"]
    /\ aret' = [aret EXCEPT ![c] = NoReturn]
    /\ UNCHANGED <<akind, arows>>
    /\ UNCHANGED nota

\* JobQueue.add_topic: the scan finds the topic; a warning, return False.
AddExisting(c) ==
    /\ akind = "JobQueue"
    /\ apc[c] = "loaded"
    /\ Exists(aloaded[c], aname[c])
    /\ aret' = [aret EXCEPT ![c] = [value |-> "False", log |-> "Topic already exists"]]
    /\ aloaded' = [aloaded EXCEPT ![c] = NoWb]
    /\ apc' = [apc EXCEPT ![c] = "idle"]
    /\ UNCHANGED <<akind, arows, aname, anotes>>
    /\ UNCHANGED nota

\* JobQueue.add_topic: the row is written at max_row + 1 of the loaded
\* workbook, which is saved over the file; return True.
\* ExcelQueueManager.add_topic: the row is concatenated to the DataFrame read,
\* which is written over the file; nothing is returned.
AddSave(c) ==
    /\ apc[c] = "loaded"
    /\ akind = "JobQueue" => ~Exists(aloaded[c], aname[c])
    /\ arows' = Append(aloaded[c], AddedRow(akind, aname[c], anotes[c]))
    /\ aret' = [aret EXCEPT ![c] =
                  [value |-> IF akind = "JobQueue" THEN "True" ELSE "None",
                   log |-> "Added new topic"]]
    /\ aloaded' = [aloaded EXCEPT ![c] = NoWb]
    /\ apc' = [apc EXCEPT ![c] = "idle"]
    /\ UNCHANGED <<akind, aname, anotes>>
    /\ UNCHANGED nota

\* The save raises (the file is open elsewhere, the disk is full): the except
\* branch logs the error; JobQueue returns False, ExcelQueueManager nothing.
AddError(c) ==
    /\ apc[c] = "loaded"
    /\ akind = "JobQueue" => ~Exists(aloaded[c], aname[c])
    /\ aret' = [aret EXCEPT ![c] =
                  [value |-> IF akind = "JobQueue" THEN "False" ELSE "None",
                   log |-> "Error adding topic"]]
    /\ aloaded' = [aloaded EXCEPT ![c] = NoWb]
    /\ apc' = [apc EXCEPT ![c] = "idle"]
    /\ UNCHANGED <<akind, arows, aname, anotes>>
    /\ UNCHANGED nota

\* TopicRepository.create_topic: one INSERT, committed; the id is the next
\* AUTOINCREMENT value, the position of the row. The Topic is returned.
CreateTopic(c) ==
    /\ akind = "TopicRepository"
    /\ apc[c] = "idle"
    /\ Len(arows) < MaxRows
    /\ \E title \in TopicNames :
        /\ aname' = [aname EXCEPT ![c] = title]
        /\ arows' = Append(arows, AddedRow(akind, title, ""))
    /\ aret' = [aret EXCEPT ![c] = [value |-> "Topic", log |-> "Created topic"]]
    /\ UNCHANGED <<akind, aloaded, apc, anotes>>
    /\ UNCHANGED nota

AddIdle ==
    /\ akind = ""
    /\ arows = <<>>
    /\ aloaded = <<>>
    /\ apc = <<>>
    /\ aname = <<>>
    /\ anotes = <<>>
    /\ aret = <<>>

AddNext ==
    \E c \in Workers :
        \/ AddLoad(c)
        \/ AddExisting(c)
        \/ AddSave(c)
        \/ AddError(c)
        \/ CreateTopic(c)


\* ------ OrchestratorWorkflow.run, one loop with its iteration_count, and
\* ------ the other users of the sheet
\* The sheet as the loop meets it: the row its scan reaches first, with the
\* length of the Error_Message cell; "absent" when the sheet has no such row.
NewSheetRow == [status |-> STATUS_PENDING, ts |-> "none", errlen |-> 0]

AbsentRow == [status |-> "absent", ts |-> "none", errlen |-> 0]

NoRunOutcome == [status |-> "", len |-> 0]

NoCall == [op |-> "", value |-> "", log |-> ""]

Call(op, value, log) == [op |-> op, value |-> value, log |-> log]

\* update_status is passed error_message=str(e), the whole text, and writes
\* the cell only when the text is truthy.
StoredLength(old, len) == IF len > 0 THEN len ELSE old

\* A check that passes for any row that is there.
StillThere(row) == row.status # "absent"

\* claim_topic, check phase and re-check: the status is still Pending.
StillPending(row) == row.status = STATUS_PENDING

\* A limit that lets one more topic through.
LimitExceeded(max_iterations, iteration_count) ==
    max_iterations > 0 /\ iteration_count > max_iterations

\* run: `self.max_iterations > 0 and iteration_count >= self.max_iterations`.
LimitReached(max_iterations, iteration_count) ==
    max_iterations > 0 /\ iteration_count >= max_iterations

\* run: the iteration limit at the top of the loop.
LoopCheck ==
    /\ lpc = "check"
    /\ lmax > 0 \/ lcount < MaxIterations
    /\ lpc' = IF LimitReached(lmax, lcount) THEN "stopped" ELSE "get"
    /\ UNCHANGED <<lmax, lcount, lrow, lavailable, ltopic, loutcome, llast, lprocessed, lreturned>>
    /\ UNCHANGED notl

\* run: get_next_pending_topic. An exception of load_workbook is caught in
\* the method, which returns None; None makes the loop sleep and continue.
LoopGetNext ==
    /\ lpc = "get"
    /\ IF ~lavailable
       THEN /\ llast' = Call("get_next_pending_topic", "None", "Error reading Excel file")
            /\ lpc' = "check"
            /\ UNCHANGED <<lrow, ltopic>>
       ELSE IF GetNextResult(<<lrow>>) = 0
       THEN /\ llast' = Call("get_next_pending_topic", "None", "No pending topics found")
            /\ lpc' = "check"
            /\ UNCHANGED <<lrow, ltopic>>
       ELSE /\ llast' = Call("get_next_pending_topic", "topic",
                             IF IsStale(lrow) THEN "Found stale In_Progress topic"
                             ELSE "Found pending topic")
            /\ lrow' = IF IsStale(lrow) THEN ResetRow(lrow) ELSE lrow
            /\ ltopic' = 1
            /\ lpc' = "claim"
    /\ UNCHANGED <<lmax, lcount, lavailable, loutcome, lprocessed, lreturned>>
    /\ UNCHANGED notl

\* run: claim_topic. False makes the loop sleep and continue.
LoopClaim ==
    /\ lpc = "claim"
    /\ IF ~lavailable
       THEN /\ llast' = Call("claim_topic", "False", "Error claiming topic")
            /\ lpc' = "check"
            /\ ltopic' = 0
            /\ UNCHANGED lrow
       ELSE IF lrow.status = "absent"
       THEN /\ llast' = Call("claim_topic", "False", "Topic not found")
            /\ lpc' = "check"
            /\ ltopic' = 0
            /\ UNCHANGED lrow
       ELSE IF ~StillPending(lrow)
       THEN /\ llast' = Call("claim_topic", "False", "Cannot claim topic")
            /\ lpc' = "check"
            /\ ltopic' = 0
            /\ UNCHANGED lrow
       ELSE /\ llast' = Call("claim_topic", "True", "Successfully claimed topic")
            /\ lrow' = ClaimRow(lrow)
            /\ lpc' = "process"
            /\ UNCHANGED ltopic
    /\ UNCHANGED <<lmax, lcount, lavailable, loutcome, lprocessed, lreturned>>
    /\ UNCHANGED notl

\* run: process_topic up to its update_status call; the phases end well or
\* an exception with a text of some length is caught.
LoopProcess ==
    /\ lpc = "process"
    /\ \E o \in {[status |-> STATUS_COMPLETED, len |-> 0]} \cup
                {[status |-> STATUS_FAILED, len |-> n] : n \in MsgLengths} :
        loutcome' = o
    /\ lprocessed' = lprocessed + 1
    /\ lpc' = "update"
    /\ UNCHANGED <<lmax, lcount, lrow, lavailable, ltopic, llast, lreturned>>
    /\ UNCHANGED notl

\* process_topic: update_status, whose return value is not looked at, then
\* return True or False; run: iteration_count += 1 and the next round.
LoopUpdate ==
    /\ lpc = "update"
    /\ IF ~lavailable
       THEN /\ llast' = Call("update_status", "False", "Error updating topic")
            /\ UNCHANGED lrow
       ELSE IF lrow.status = "absent"
       THEN /\ llast' = Call("update_status", "False", "Topic not found for update")
            /\ UNCHANGED lrow
       ELSE /\ llast' = Call("update_status", "True", "Updated status")
            /\ lrow' = [UpdateRow(lrow, loutcome.status, "", "")
                          EXCEPT !.errlen = StoredLength(@, loutcome.len)]
    /\ lreturned' = IF loutcome.status = STATUS_COMPLETED THEN "True" ELSE "False"
    /\ lcount' = lcount + 1
    /\ ltopic' = 0
    /\ loutcome' = NoRunOutcome
    /\ lpc' = "check"
    /\ UNCHANGED <<lmax, lavailable, lprocessed>>
    /\ UNCHANGED notl

\* Another worker's claim_topic takes the pending row.
OtherClaims ==
    /\ lrow.status = STATUS_PENDING
    /\ lrow' = ClaimRow(lrow)
    /\ UNCHANGED <<lmax, lcount, lpc, lavailable, ltopic, loutcome, llast, lprocessed, lreturned>>
    /\ UNCHANGED notl

\* Another worker's update_status ends the topic it holds.
OtherFinishes ==
    /\ lrow.status = STATUS_IN_PROGRESS
    /\ lpc \notin {"process", "update"}
    /\ \E s \in {STATUS_COMPLETED, STATUS_FAILED} : lrow' = [lrow EXCEPT !.status = s]
    /\ UNCHANGED <<lmax, lcount, lpc, lavailable, ltopic, loutcome, llast, lprocessed, lreturned>>
    /\ UNCHANGED notl

\* The row is deleted from the workbook by whoever edits it.
SheetEdited ==
    /\ lrow.status # "absent"
    /\ lrow' = AbsentRow
    /\ UNCHANGED <<lmax, lcount, lpc, lavailable, ltopic, loutcome, llast, lprocessed, lreturned>>
    /\ UNCHANGED notl

\* add_topic by the submission tool: the scan now reaches a new pending row.
Enqueued ==
    /\ lrow.status \in {"absent", STATUS_COMPLETED, STATUS_FAILED}
    /\ lpc \notin {"claim", "process", "update"}
    /\ lrow' = NewSheetRow
    /\ UNCHANGED <<lmax, lcount, lpc, lavailable, ltopic, loutcome, llast, lprocessed, lreturned>>
    /\ UNCHANGED notl

\* The file becomes unreadable (open in another program, unmounted) or
\* readable again.
StoreToggles ==
    /\ lavailable' = ~lavailable
    /\ UNCHANGED <<lmax, lcount, lpc, lrow, ltopic, loutcome, llast, lprocessed, lreturned>>
    /\ UNCHANGED notl

\* lock_timeout elapses for the timestamp of the row.
LockAges ==
    /\ lrow.ts = "fresh"
    /\ lrow' = [lrow EXCEPT !.ts = "stale"]
    /\ UNCHANGED <<lmax, lcount, lpc, lavailable, ltopic, loutcome, llast, lprocessed, lreturned>>
    /\ UNCHANGED notl

RunIdle ==
    /\ lmax = 0
    /\ lcount = 0
    /\ lpc = "idle"
    /\ lrow = AbsentRow
    /\ lavailable = TRUE
    /\ ltopic = 0
    /\ loutcome = NoRunOutcome
    /\ llast = NoCall
    /\ lprocessed = 0
    /\ lreturned = ""

LoopStep ==
    \/ LoopCheck
    \/ LoopGetNext
    \/ LoopClaim
    \/ LoopProcess
    \/ LoopUpdate

RunNext ==
    \/ LoopStep
    \/ OtherClaims
    \/ OtherFinishes
    \/ SheetEdited
    \/ Enqueued
    \/ StoreToggles
    \/ LockAges


\* ------ orchestrator/orchestrator.py, run_for_topic_id
\* The ids a caller may pass: those of the rows of the table and one that no
\* row has.
RequestedIds == 1..(NumTopics + 1)

TopicStatuses == {"pending", "in_progress", "completed", "failed"}

\* repository get_topic: the row with the id, or None.
GetTopic(status, id) == IF id \in DOMAIN status THEN id ELSE 0

\* update_topic_status evaluates status.value for its parameter tuple: the
\* value of a TopicStatus member, AttributeError for a plain str.
StatusValue(arg) ==
    IF arg.type = "TopicStatus" THEN [raised |-> "", value |-> arg.text]
    ELSE [raised |-> "AttributeError", value |-> ""]

\* run_for_topic_id passes the literal "pending".
PendingLiteral == [type |-> "str", text |-> "pending"]

\* run_for_topic_id is called with topic_id = id.
RunForTopicId(w, id) ==
    /\ ipc[w] = "idle"
    /\ opc[w] = "idle"
    /\ irequested' = [irequested EXCEPT ![w] = id]
    /\ ipc' = [ipc EXCEPT ![w] = "get"]
    /\ UNCHANGED iexc
    /\ UNCHANGED ovars
    /\ UNCHANGED notoi

\* run_for_topic_id: get_topic; ValueError when there is no such row; the
\* status of the row read decides whether the reset is called.
ByIdGetTopic(w) ==
    /\ ipc[w] = "get"
    /\ IF GetTopic(ostatus, irequested[w]) = 0
       THEN /\ ipc' = [ipc EXCEPT ![w] = "raised"]
            /\ iexc' = [iexc EXCEPT ![w] = "ValueError"]
       ELSE /\ ipc' = [ipc EXCEPT ![w] =
                        IF ostatus[irequested[w]] # "pending" THEN "reset" ELSE "next"]
            /\ UNCHANGED iexc
    /\ UNCHANGED irequested
    /\ UNCHANGED ovars
    /\ UNCHANGED notoi

\* run_for_topic_id: update_topic_status(topic.id, "pending"); an exception
\* of the call leaves run_for_topic_id.
ByIdReset(w) ==
    /\ ipc[w] = "reset"
    /\ IF StatusValue(PendingLiteral).raised # ""
       THEN /\ ipc' = [ipc EXCEPT ![w] = "raised"]
            /\ iexc' = [iexc EXCEPT ![w] = StatusValue(PendingLiteral).raised]
            /\ UNCHANGED ostatus
       ELSE /\ ostatus' = [ostatus EXCEPT ![irequested[w]] = StatusValue(PendingLiteral).value]
            /\ ipc' = [ipc EXCEPT ![w] = "next"]
            /\ UNCHANGED iexc
    /\ UNCHANGED irequested
    /\ UNCHANGED <<orunPhases, opc, otopic, ophase, odone, odoneAtCompleted, oret, olooping>>
    /\ UNCHANGED notoi

\* run_for_topic_id: self.run_for_next_topic(), whose Phase 1 asks the
\* repository for the next pending topic; no id is passed.
ByIdRunNext(w) ==
    /\ ipc[w] = "next"
    /\ IF OldestPending(ostatus) = 0
       THEN /\ oret' = [oret EXCEPT ![w] = "False"]
            /\ ipc' = [ipc EXCEPT ![w] = "returned"]
            /\ UNCHANGED <<otopic, odone, opc>>
       ELSE /\ otopic' = [otopic EXCEPT ![w] = OldestPending(ostatus)]
            /\ odone' = [odone EXCEPT ![w] = {1}]
            /\ opc' = [opc EXCEPT ![w] = "mark"]
            /\ ipc' = [ipc EXCEPT ![w] = "running"]
            /\ UNCHANGED oret
    /\ UNCHANGED <<irequested, iexc>>
    /\ UNCHANGED <<orunPhases, ostatus, ophase, odoneAtCompleted, olooping>>
    /\ UNCHANGED notoi

\* run_for_topic_id: run_for_next_topic has returned, its result is dropped.
ByIdReturn(w) ==
    /\ ipc[w] = "running"
    /\ opc[w] = "idle"
    /\ ipc' = [ipc EXCEPT ![w] = "returned"]
    /\ UNCHANGED <<irequested, iexc>>
    /\ UNCHANGED ovars
    /\ UNCHANGED notoi

ByIdIdle ==
    /\ irequested = <<>>
    /\ ipc = <<>>
    /\ iexc = <<>>

\* The steps of run_for_next_topic after its Phase 1.
PipelineStep(w) ==
    \/ OrchMarkInProgress(w)
    \/ OrchPhaseReturn(w)
    \/ OrchPhaseRaise(w)
    \/ OrchMarkCompleted(w)
    \/ OrchCleanupReturn(w)
    \/ OrchMarkFailed(w)

ByIdNext ==
    \E w \in Workers :
        \/ \E id \in RequestedIds : RunForTopicId(w, id)
        \/ ByIdGetTopic(w)
        \/ ByIdReset(w)
        \/ ByIdRunNext(w)
        \/ ByIdReturn(w)
        \/ PipelineStep(w)


\* ------ orchestrator/excel_queue_manager.py, ExcelQueueManager
\* The example row that _create_template writes into a new workbook.
TemplateRow == [topic |-> "Example", status |-> "pending", priority |-> 1]

\* The status texts a caller writes: those of the docstring of update_status
\* ("failed" goes the way of "completed" in every branch) and a capitalised
\* one typed by hand.
SheetStatuses == {"pending", "Pending", "processing", "completed"}

\* str.lower() on the status texts.
Lower(s) == IF s = "Pending" THEN "pending" ELSE s

\* pd.read_excel gives the rows a RangeIndex: 0 for the first row.
FrameIndex(rows) == {i - 1 : i \in DOMAIN rows}

RowAt(rows, idx) == rows[idx + 1]

\* get_pending_topics: df[df["Status"].str.lower() == "pending"], by index.
PendingFrame(rows) == {idx \in FrameIndex(rows) : Lower(RowAt(rows, idx).status) = "pending"}

\* A sort that puts the smallest priority first.
InOrderAscending(p, q) == p <= q

\* get_pending_topics: sort_values("Priority", ascending=False).
InOrder(p, q) == p >= q

\* get_pending_topics: the dictionary built for the row with index idx.
TopicEntry(rows, idx) ==
    [index |-> idx, topic |-> RowAt(rows, idx).topic, priority |-> RowAt(rows, idx).priority]

\* The lists get_pending_topics may return: the pending rows in an order
\* sort_values may give them, rows of equal priority in any order (the
\* default sort is not a stable one).
PendingLists(rows) ==
    LET n == Cardinality(PendingFrame(rows))
        orders == {f \in [1..n -> PendingFrame(rows)] :
                      /\ \A j, k \in 1..n : j # k => f[j] # f[k]
                      /\ \A j, k \in 1..n :
                            j < k => InOrder(RowAt(rows, f[j]).priority,
                                             RowAt(rows, f[k]).priority)}
    IN {[j \in 1..n |-> TopicEntry(rows, f[j])] : f \in orders}

NoArguments == [index |-> 0 - 1, status |-> ""]

CallOf(op, index, status) == [op |-> op, index |-> index, status |-> status]

ReturnedNone == [returned |-> "None", list |-> <<>>]

\* add_topic: the frame read from the file gets one more row, status
\* "pending", and is written back.
ListAddTopic(name, p) ==
    /\ Len(xrows) < MaxRows
    /\ xrows' = Append(xrows, [topic |-> name, status |-> "pending", priority |-> p])
    /\ xcall' = CallOf("add_topic", NoArguments.index, NoArguments.status)
    /\ xresult' = ReturnedNone
    /\ UNCHANGED notx

\* update_status(topic_index, status) for the index of a row of the sheet:
\* df.at[topic_index, "Status"] = status, and the frame is written back.
ListUpdateStatus(idx, status) ==
    /\ idx \in FrameIndex(xrows)
    /\ xrows' = [xrows EXCEPT ![idx + 1].status = status]
    /\ xcall' = CallOf("update_status", idx, status)
    /\ xresult' = ReturnedNone
    /\ UNCHANGED notx

\* get_pending_topics.
ListGetPending ==
    /\ \E l \in PendingLists(xrows) : xresult' = [returned |-> "list", list |-> l]
    /\ xcall' = CallOf("get_pending_topics", NoArguments.index, NoArguments.status)
    /\ UNCHANGED xrows
    /\ UNCHANGED notx

ListIdle ==
    /\ xrows = <<>>
    /\ xcall = CallOf("", NoArguments.index, NoArguments.status)
    /\ xresult = ReturnedNone

ListNext ==
    \/ \E name \in TopicNames : \E p \in 0..MaxPriority : ListAddTopic(name, p)
    \/ \E idx \in 0..(MaxRows - 1) : \E status \in SheetStatuses : ListUpdateStatus(idx, status)
    \/ ListGetPending


\* ------ orchestrator/pipeline_orchestrator.py, execute_pipeline
\* What the execute of a phase gives back: the dictionary with "status"
\* "completed", the one with "status" "failed" and "error": str(e), or an
\* exception; len is the length of the text.
NoOutput == [kind |-> "", status |-> "", len |-> 0]

CompletedOutput == [kind |-> "dict", status |-> "completed", len |-> 0]

FailedOutput(n) == [kind |-> "dict", status |-> "failed", len |-> n]

RaisedOutput(n) == [kind |-> "exception", status |-> "", len |-> n]

PhaseOutputs ==
    {CompletedOutput} \cup {FailedOutput(n) : n \in MsgLengths}
                      \cup {RaisedOutput(n) : n \in MsgLengths}

\* results as execute_pipeline creates it; error_phase 0 and error -1 stand
\* for a key that is not in the dictionary.
NewResults ==
    [status |-> "in_progress", phases |-> <<>>, error_phase |-> 0, error |-> 0 - 1,
     output_directory |-> FALSE]

\* A check that lets a failed phase pass.
AbortsNever(output) == FALSE

\* execute_pipeline: `if phaseN_output["status"] == "failed"`.
Aborts(output) == output.status = "failed"

\* execute_pipeline: self.phaseN.execute(...) is called and returns or raises.
PipeCall ==
    /\ gpc = "call"
    /\ gcalled' = Append(gcalled, gn)
    /\ \E o \in PhaseOutputs :
        /\ gout' = o
        /\ IF o.kind = "exception"
           THEN /\ gpc' = "except"
                /\ graised' = gn
           ELSE /\ gpc' = "store"
                /\ UNCHANGED graised
    /\ UNCHANGED <<gtopic, gn, gresults>>
    /\ UNCHANGED notg

\* execute_pipeline: results["phases"]["phaseN"] = phaseN_output.
PipeStore ==
    /\ gpc = "store"
    /\ gresults' = [gresults EXCEPT !.phases = Append(@, gout)]
    /\ gpc' = "check"
    /\ UNCHANGED <<gtopic, gn, gout, gcalled, graised>>
    /\ UNCHANGED notg

\* execute_pipeline: the status test after the phase; a failed phase sets
\* status and error_phase and returns, otherwise the next phase is called,
\* and after Phase 8 the completed branch is entered.
PipeCheck ==
    /\ gpc = "check"
    /\ IF Aborts(gout)
       THEN /\ gresults' = [gresults EXCEPT !.status = "failed", !.error_phase = gn]
            /\ gpc' = "returned"
            /\ UNCHANGED gn
       ELSE IF gn < NumPhases
       THEN /\ gn' = gn + 1
            /\ gpc' = "call"
            /\ UNCHANGED gresults
       ELSE /\ gpc' = "finish"
            /\ UNCHANGED <<gn, gresults>>
    /\ gout' = NoOutput
    /\ UNCHANGED <<gtopic, gcalled, graised>>
    /\ UNCHANGED notg

\* execute_pipeline: status "completed", the output directory of Phase 8 is
\* copied, results is returned.
PipeFinish ==
    /\ gpc = "finish"
    /\ gresults' = [gresults EXCEPT !.status = "completed", !.output_directory = TRUE]
    /\ gpc' = "returned"
    /\ UNCHANGED <<gtopic, gn, gout, gcalled, graised>>
    /\ UNCHANGED notg

\* execute_pipeline, `except Exception as e`: status "failed" and
\* "error": str(e); results is returned.
PipeExcept ==
    /\ gpc = "except"
    /\ gresults' = [gresults EXCEPT !.status = "failed", !.error = gout.len]
    /\ gout' = NoOutput
    /\ gpc' = "returned"
    /\ UNCHANGED <<gtopic, gn, gcalled, graised>>
    /\ UNCHANGED notg

PipeIdle ==
    /\ gtopic = 0
    /\ gpc = "idle"
    /\ gn = 0
    /\ gout = NoOutput
    /\ gresults = NewResults
    /\ gcalled = <<>>
    /\ graised = 0

PipeNext ==
    \/ PipeCall
    \/ PipeStore
    \/ PipeCheck
    \/ PipeFinish
    \/ PipeExcept

\* ------------------------------------------------------------ specifications
QueueIdle ==
    /\ file = <<>>
    /\ wb = <<>>
    /\ pc = <<>>
    /\ topic = <<>>
    /\ outcome = <<>>
    /\ everReset = {}

ExecIdle ==
    /\ eentry = ""
    /\ eprior = NoState
    /\ est = NoState
    /\ edisk = AbsentFile
    /\ esave = "idle"
    /\ epc = "idle"
    /\ eph = 0
    /\ einvoked = <<>>
    /\ eoutcome = NoOutcome
    /\ ejob = <<>>

\* process_topic(topic) for a claimed topic whose earlier claim attempt left
\* phases 1..k in its workspace (k = 0: none), or execute_phases(state) on
\* the State load_state returns from such a workspace.
ExecInit ==
    /\ eentry \in {"process_topic", "execute_phases"}
    /\ \E k \in 0..NumPhases : eprior = PriorState(k)
    /\ est = IF eentry = "execute_phases" THEN eprior ELSE NoState
    /\ edisk = IF eentry = "execute_phases" THEN ClosedFile(eprior) ELSE AbsentFile
    /\ esave = "idle"
    /\ epc = "start"
    /\ eph = 0
    /\ einvoked = <<>>
    /\ eoutcome = NoOutcome
    /\ ejob = [status |-> STATUS_IN_PROGRESS, err |-> "", notes |-> ""]
    /\ QueueIdle
    /\ priority = <<>>
    /\ SqlIdle
    /\ OrchIdle
    /\ ParIdle
    /\ RetryIdle
    /\ AddIdle
    /\ RunIdle
    /\ ByIdIdle
    /\ ListIdle
    /\ PipeIdle

ExecNext ==
    \/ ProcessTopicBegin
    \/ ExecutePhasesBegin
    \/ SaveOpen
    \/ SaveFlush
    \/ SaveClose
    \/ LoopNext
    \/ LoopEnd
    \/ HandlerReturn
    \/ HandlerRaise
    \/ Report
    \/ ExecCrash

SqlInit ==
    /\ priority \in [Topics -> 0..MaxPriority]
    /\ SqlIdle
    /\ QueueIdle
    /\ ExecIdle
    /\ OrchIdle
    /\ ParIdle
    /\ RetryIdle
    /\ AddIdle
    /\ RunIdle
    /\ ByIdIdle
    /\ ListIdle
    /\ PipeIdle

Init ==
    /\ QueueInit
    /\ priority = <<>>
    /\ SqlIdle
    /\ ExecIdle
    /\ OrchIdle
    /\ ParIdle
    /\ RetryIdle
    /\ AddIdle
    /\ RunIdle
    /\ ByIdIdle
    /\ ListIdle
    /\ PipeIdle

\* run_continuous loops started on a table of pending topics, under each
\* value of settings.run_phases.
OrchInit ==
    /\ orunPhases \in RunPhasesModes
    /\ ostatus = [t \in Topics |-> "pending"]
    /\ opc = [w \in Workers |-> "idle"]
    /\ otopic = [w \in Workers |-> 0]
    /\ ophase = [w \in Workers |-> 0]
    /\ odone = [w \in Workers |-> {}]
    /\ odoneAtCompleted = [t \in Topics |-> {}]
    /\ oret = [w \in Workers |-> ""]
    /\ olooping = [w \in Workers |-> TRUE]
    /\ QueueIdle
    /\ priority = <<>>
    /\ SqlIdle
    /\ ExecIdle
    /\ ParIdle
    /\ RetryIdle
    /\ AddIdle
    /\ RunIdle
    /\ ByIdIdle
    /\ ListIdle
    /\ PipeIdle

Next == QueueNext

Spec == Init /\ [][Next]_vars

SqlSpec == SqlInit /\ [][SqlNext]_vars

ExecSpec == ExecInit /\ [][ExecNext]_vars

OrchSpec == OrchInit /\ [][OrchNext]_vars

\* execute called with 0..MaxQueries sub-queries on a pool of 1..MaxPool
\* threads.
ParInit ==
    /\ pN \in 0..MaxQueries
    /\ pmaxWorkers \in 1..MaxPool
    /\ ppc = "start"
    /\ psubmitted = 0
    /\ ptask = [i \in Queries |-> "unsubmitted"]
    /\ pyielded = {}
    /\ presults = <<>>
    /\ pstatus = ""
    /\ QueueIdle
    /\ priority = <<>>
    /\ SqlIdle
    /\ ExecIdle
    /\ OrchIdle
    /\ RetryIdle
    /\ AddIdle
    /\ RunIdle
    /\ ByIdIdle
    /\ ListIdle
    /\ PipeIdle

ParSpec == ParInit /\ [][ParNext]_vars

\* One call of a function decorated by retry_with_backoff, of
\* PerplexityClient.search / chat_json, or of _generate_image_with_retry, for
\* each retry limit from 1 and each delay parameter.
RetryInit ==
    /\ rkind \in {"helper", "search", "image"}
    /\ rmax \in 1..MaxRetries
    /\ rbase \in 1..MaxBase
    /\ rfactor \in IF rkind = "helper" THEN 1..MaxBase ELSE {0}
    /\ rpc = "attempt"
    /\ rattempt = IF rkind = "search" THEN 1 ELSE 0
    /\ rdelay = IF rkind = "helper" THEN rbase ELSE 0
    /\ rlast = Outcome("", 0)
    /\ rcalls = 0
    /\ routcomes = <<>>
    /\ rsleeps = <<>>
    /\ rresult = NoResult
    /\ QueueIdle
    /\ priority = <<>>
    /\ SqlIdle
    /\ ExecIdle
    /\ OrchIdle
    /\ ParIdle
    /\ AddIdle
    /\ RunIdle
    /\ ByIdIdle
    /\ ListIdle
    /\ PipeIdle

RetrySpec == RetryInit /\ [][RetryNext]_vars

\* A pool thread that can take a step takes one: a queued item is started
\* when a thread is free and a running _research_query ends; so does the
\* calling thread.
ParLiveSpec == ParInit /\ [][ParNext]_vars /\ WF_vars(PoolStep) /\ WF_vars(CallerStep)

\* The steps of a run whose process stays alive: every call of the run
\* returns or raises. A handler that is running ends, one way or the other.
ExecRun ==
    \/ ProcessTopicBegin
    \/ ExecutePhasesBegin
    \/ SaveOpen
    \/ SaveClose
    \/ LoopNext
    \/ LoopEnd
    \/ HandlerReturn
    \/ HandlerRaise
    \/ Report

ExecLiveSpec == ExecInit /\ [][ExecNext]_vars /\ WF_vars(ExecRun)

\* The fairness of a worker loop that keeps running: a live worker's next
\* step is eventually taken. Nothing obliges a crash or the passing of time.
LiveSpec == Init /\ [][Next]_vars /\ \A w \in Workers : WF_vars(WorkerStep(w))


\* Callers of the enqueue operation of one store that holds no row, or one
\* row of topic "T1", pending or completed.
AddInit ==
    /\ akind \in StoreKinds
    /\ arows \in {<<>>} \cup
           {<<[topic |-> "T1", status |-> s, notes |-> "old"]>> :
                s \in {PendingOf(akind), CompletedOf(akind)}}
    /\ aloaded = [c \in Workers |-> NoWb]
    /\ apc = [c \in Workers |-> "idle"]
    /\ aname = [c \in Workers |-> ""]
    /\ anotes = [c \in Workers |-> ""]
    /\ aret = [c \in Workers |-> NoReturn]
    /\ QueueIdle
    /\ priority = <<>>
    /\ SqlIdle
    /\ ExecIdle
    /\ OrchIdle
    /\ ParIdle
    /\ RetryIdle
    /\ RunIdle
    /\ ByIdIdle
    /\ ListIdle
    /\ PipeIdle

AddSpec == AddInit /\ [][AddNext]_vars


\* One worker claiming from a backlog, on each of the three stores: a sheet
\* of JobQueue whose rows are pending, locked (freshly or beyond
\* lock_timeout) or completed; a topics table of db/topic_repository.py with
\* priorities; a topics table of repository/topic_repository.py.
BacklogRows ==
    {NewRow,
     [status |-> STATUS_IN_PROGRESS, ts |-> "fresh"],
     [status |-> STATUS_IN_PROGRESS, ts |-> "stale"],
     [status |-> STATUS_COMPLETED, ts |-> "stale"]}

TheWorker == 1

PickSheetInit ==
    /\ file \in [Topics -> BacklogRows]
    /\ wb = [w \in Workers |-> NoWb]
    /\ pc = [w \in Workers |-> IF w = TheWorker THEN "poll" ELSE "crashed"]
    /\ topic = [w \in Workers |-> 0]
    /\ outcome = [w \in Workers |-> NoOutcome]
    /\ everReset = {}
    /\ priority = <<>>
    /\ SqlIdle
    /\ OrchIdle

PickSqlInit ==
    /\ priority \in [Topics -> 0..MaxPriority]
    /\ sqlStatus \in [Topics -> {"pending", "completed"}]
    /\ rowLock = [r \in Topics |-> 0]
    /\ txpc = [c \in Workers |-> "idle"]
    /\ txsnap = [c \in Workers |-> <<>>]
    /\ txrow = [c \in Workers |-> 0]
    /\ fetched = [c \in Workers |-> {}]
    /\ QueueIdle
    /\ OrchIdle

PickRepoInit ==
    /\ orunPhases \in RunPhasesModes
    /\ ostatus \in [Topics -> {"pending", "completed"}]
    /\ opc = [w \in Workers |-> "idle"]
    /\ otopic = [w \in Workers |-> 0]
    /\ ophase = [w \in Workers |-> 0]
    /\ odone = [w \in Workers |-> {}]
    /\ odoneAtCompleted = [t \in Topics |-> {}]
    /\ oret = [w \in Workers |-> ""]
    /\ olooping = [w \in Workers |-> TRUE]
    /\ QueueIdle
    /\ priority = <<>>
    /\ SqlIdle

PickInit ==
    /\ PickSheetInit \/ PickSqlInit \/ PickRepoInit
    /\ ExecIdle
    /\ ParIdle
    /\ RetryIdle
    /\ AddIdle
    /\ RunIdle
    /\ ByIdIdle
    /\ ListIdle
    /\ PipeIdle

TxStep(c) ==
    \/ TxBegin(c)
    \/ TxSelect(c)
    \/ TxCommit(c)
    \/ TxRollback(c)
    \/ MarkTopic(c)

OrchStep(w) ==
    \/ OrchNoTopic(w)
    \/ OrchGetNext(w)
    \/ OrchMarkInProgress(w)
    \/ OrchPhaseReturn(w)
    \/ OrchPhaseRaise(w)
    \/ OrchMarkCompleted(w)
    \/ OrchCleanupReturn(w)
    \/ OrchMarkFailed(w)

PickSheetStep == file # <<>> /\ (WorkerStep(TheWorker) \/ Tick)

PickSqlStep == priority # <<>> /\ TxStep(TheWorker)

PickRepoStep == ostatus # <<>> /\ OrchStep(TheWorker)

PickNext == PickSheetStep \/ PickSqlStep \/ PickRepoStep

PickSpec == PickInit /\ [][PickNext]_vars


\* run() started with each max_iterations on a sheet with one pending topic.
RunInit ==
    /\ lmax \in 0..MaxIterations
    /\ lcount = 0
    /\ lpc = "check"
    /\ lrow = NewSheetRow
    /\ lavailable = TRUE
    /\ ltopic = 0
    /\ loutcome = NoRunOutcome
    /\ llast = NoCall
    /\ lprocessed = 0
    /\ lreturned = ""
    /\ QueueIdle
    /\ priority = <<>>
    /\ SqlIdle
    /\ ExecIdle
    /\ OrchIdle
    /\ ParIdle
    /\ RetryIdle
    /\ AddIdle
    /\ ByIdIdle
    /\ ListIdle
    /\ PipeIdle

RunSpec == RunInit /\ [][RunNext]_vars


\* run_for_topic_id called by the command line of each of two processes on a
\* table whose rows have any status; no run_continuous loop is running.
ByIdInit ==
    /\ orunPhases \in RunPhasesModes
    /\ ostatus \in [Topics -> TopicStatuses]
    /\ opc = [w \in Workers |-> "idle"]
    /\ otopic = [w \in Workers |-> 0]
    /\ ophase = [w \in Workers |-> 0]
    /\ odone = [w \in Workers |-> {}]
    /\ odoneAtCompleted = [t \in Topics |-> {}]
    /\ oret = [w \in Workers |-> ""]
    /\ olooping = [w \in Workers |-> FALSE]
    /\ irequested = [w \in Workers |-> 0]
    /\ ipc = [w \in Workers |-> "idle"]
    /\ iexc = [w \in Workers |-> ""]
    /\ QueueIdle
    /\ priority = <<>>
    /\ SqlIdle
    /\ ExecIdle
    /\ ParIdle
    /\ RetryIdle
    /\ AddIdle
    /\ RunIdle
    /\ ListIdle
    /\ PipeIdle

ByIdSpec == ByIdInit /\ [][ByIdNext]_vars


\* An ExcelQueueManager constructed on a path where no file was: the
\* workbook is the template.
ListInit ==
    /\ xrows = <<TemplateRow>>
    /\ xcall = CallOf("", NoArguments.index, NoArguments.status)
    /\ xresult = ReturnedNone
    /\ QueueIdle
    /\ priority = <<>>
    /\ SqlIdle
    /\ ExecIdle
    /\ OrchIdle
    /\ ParIdle
    /\ RetryIdle
    /\ AddIdle
    /\ RunIdle
    /\ ByIdIdle
    /\ PipeIdle

ListSpec == ListInit /\ [][ListNext]_vars


\* execute_pipeline(topic) at its first phase.
PipeInit ==
    /\ gtopic \in Topics
    /\ gpc = "call"
    /\ gn = 1
    /\ gout = NoOutput
    /\ gresults = NewResults
    /\ gcalled = <<>>
    /\ graised = 0
    /\ QueueIdle
    /\ priority = <<>>
    /\ SqlIdle
    /\ ExecIdle
    /\ OrchIdle
    /\ ParIdle
    /\ RetryIdle
    /\ AddIdle
    /\ RunIdle
    /\ ByIdIdle
    /\ ListIdle

PipeSpec == PipeInit /\ [][PipeNext]_vars

\* ------------------------------------------------------- claims, Excel queue
Owners(t) == {w \in Workers : Live(w) /\ topic[w] = t /\ pc[w] \in Owning}

\* C1 (as claimed): for a topic that no stale-lock reset made Pending again,
\* claim_topic has returned True to at most one of the workers racing for it.
C1_ClaimExclusive ==
    \A t \in Topics : t \notin everReset => Cardinality(Owners(t)) <= 1

\* C3 (as claimed): at most one running worker is between a successful claim
\* of a topic and its terminal update_status, stale locks included.
C3_AtMostOneOwner ==
    \A t \in Topics : Cardinality(Owners(t)) <= 1

\* The topic's row is In_Progress with a timestamp older than lock_timeout,
\* the worker that processed it has crashed and no running worker owns it.
Abandoned(t) ==
    /\ IsStale(file[t])
    /\ Owners(t) = {}
    /\ \E v \in Workers : pc[v] = "crashed" /\ topic[v] = t

\* One worker is left running and it is about to poll: it is between two
\* queue calls and holds no workbook loaded before the crash.
OneLive ==
    /\ Cardinality({w \in Workers : Live(w)}) = 1
    /\ \A w \in Workers : Live(w) => pc[w] = "poll"

Reclaimed(t) == \E w \in Workers : pc[w] = "process" /\ topic[w] = t

AllowedMove(a, b) ==
    \/ a = b
    \/ a = STATUS_PENDING /\ b = STATUS_IN_PROGRESS
    \/ a = STATUS_IN_PROGRESS /\ b \in {STATUS_COMPLETED, STATUS_FAILED, STATUS_PENDING}

\* C7 (as claimed): under every interleaving of the workers' queue calls a
\* row's status only moves Pending -> In_Progress, In_Progress -> Completed
\* or Failed, and In_Progress -> Pending; Completed and Failed stay.
C7_StatusTransitions ==
    [][\A t \in Topics : AllowedMove(file[t].status, file'[t].status)]_vars

\* ---------------------------------------------------------- claims, SQL store
\* C2: no topic id is returned to two callers of fetch_next_topic, and no row
\* is selected by two open transactions: the row one transaction selected is
\* skipped by the others while it is locked and is in_progress afterwards.
C2_SqlClaimExclusive ==
    \A c, d \in Workers : c # d =>
        /\ fetched[c] \cap fetched[d] = {}
        /\ txrow[c] # 0 => txrow[c] # txrow[d] /\ txrow[c] \notin fetched[d]

\* Two transactions are open at once; the later one skipped the row the
\* other holds, which comes first in the ORDER BY, and took the next one.
C2_Witness ==
    \E c, d \in Workers :
        /\ c # d
        /\ txpc[c] = "update" /\ txpc[d] = "update"
        /\ Before(txrow[c], txrow[d])

\* ------------------------------------------------- claims, one run of a topic
OneTo(n) == [i \in 1..n |-> i]

Range(seq) == {seq[i] : i \in DOMAIN seq}

\* The smallest phase number that is not in phases_completed.
SmallestMissing(done) ==
    CHOOSE n \in 1..(NumPhases + 1) :
        /\ n \notin Range(done)
        /\ \A m \in 1..(n - 1) : m \in Range(done)

\* C5 (as claimed): process_topic for a topic whose earlier owner persisted
\* phases 1..k works on that persisted state and the first handler it calls
\* is the one of phase k+1.
C5_ResumeOnReclaim ==
    eentry = "process_topic" =>
        /\ epc = "save_created" => est = eprior
        /\ einvoked # <<>> => einvoked[1] = Len(eprior.phases_completed) + 1

\* C6 (as claimed): execute_phases on a state holding phases 1..k calls the
\* handlers of phases k+1..8 once each and leaves phases_completed = 1..8.
C6_ResumeIdempotent ==
    (eentry = "execute_phases" /\ epc = "returned" /\ eoutcome = CompletedOutcome) =>
        /\ einvoked = [i \in 1..(NumPhases - Len(eprior.phases_completed)) |->
                          Len(eprior.phases_completed) + i]
        /\ est.phases_completed = OneTo(NumPhases)

\* C8 (as claimed): every record save_state has written during a run of
\* process_topic has current_phase = the smallest phase not completed.
C8_CurrentPhaseDerived ==
    (eentry = "process_topic" /\ edisk.form = "full") =>
        edisk.data.current_phase = SmallestMissing(edisk.data.phases_completed)

\* C9 (as claimed): after a crash during save_state, state.json is a
\* complete record, never an empty or truncated one.
C9_AtomicCheckpoint ==
    (epc = "crashed" /\ esave # "idle") => edisk.form \notin {"empty", "partial"}

\* C10 (as claimed): when the handler of phase n raises in a run of
\* process_topic, the handlers called are those of phases 1..n, the error is
\* in the persisted errors log when the row becomes Failed, the row ends Failed
\* with a non-empty error message, and the persisted state has
\* phases_completed = 1..n-1 and current_phase = n.
C10_FailurePath ==
    (eentry = "process_topic" /\ epc = "done" /\ eoutcome.status = STATUS_FAILED) =>
        /\ einvoked = OneTo(eph)
        /\ edisk.form = "full"
        /\ edisk.data.errors # <<>>
        /\ edisk.data.phases_completed = OneTo(eph - 1)
        /\ edisk.data.current_phase = eph
        /\ ejob.status = STATUS_FAILED
        /\ ejob.err # ""

C12_CompletedImpliesAllPhases ==
    \A t \in Topics :
        ostatus[t] = "completed" => odoneAtCompleted[t] = 1..NumPhases

\* ------------------------------------------- claims, the parallel research phase
Finished(tasks) == {i \in Queries : tasks[i] \in {"ok", "error"}}

Collected(results) == {results[j].task : j \in DOMAIN results}

C14_SubmissionOrder ==
    ppc = "returned" => \A j \in DOMAIN presults : presults[j].task = j

\* C15: at most max_workers tasks are running at any time, and a submitted
\* task that waits in the queue is eventually started.
C15_Backpressure ==
    /\ [](Cardinality(Running(ptask)) <= pmaxWorkers)
    /\ \A i \in Queries : (ptask[i] = "queued") ~> (ptask[i] # "queued")

\* More queries than pool threads: the pool is full, a submitted task waits.
C15_Witness ==
    /\ Cardinality(Running(ptask)) = pmaxWorkers
    /\ \E i \in Queries : ptask[i] = "queued"

\* C16: execute has returned only when every submitted task has finished,
\* with a result or with an error, and only submitted tasks were started.
C16_RunnerJoin ==
    /\ ppc = "returned" => Finished(ptask) = 1..pN
    /\ \A i \in Queries : ptask[i] # "unsubmitted" => i <= psubmitted /\ i <= pN

\* The call has returned after some of its tasks raised.
C16_Witness ==
    /\ ppc = "returned"
    /\ pN >= 2
    /\ \E i, j \in 1..pN : ptask[i] = "error" /\ ptask[j] = "ok"

\* ------------------------------------------------------ claims, retry loops
Failures == {"error", "timeout", "request_error", "rate_limit"}

\* C17: a call wrapped by retry_with_backoff whose function raised in every
\* attempt has invoked it exactly max_retries times, raises the exception of
\* the last invocation, and slept after every failure but the last.
C17_BackoffTermination ==
    (/\ rkind = "helper"
     /\ rpc = "done"
     /\ \A j \in DOMAIN routcomes : routcomes[j].kind = "error") =>
        /\ rcalls = rmax
        /\ rresult = Raised(Outcome("error", rmax - 1))
        /\ Len(rsleeps) = rmax - 1
        /\ \A j \in DOMAIN rsleeps : rsleeps[j].after < rmax - 1

C17_Witness ==
    /\ rkind = "helper"
    /\ rmax = MaxRetries
    /\ rpc = "done"
    /\ rresult.kind = "raise"
    /\ rcalls = MaxRetries

C19_ExhaustionRaisesLast ==
    (/\ rpc = "done"
     /\ routcomes # <<>>
     /\ routcomes[Len(routcomes)].kind \in Failures) =>
        rresult = Raised(routcomes[Len(routcomes)])

\* C20: the sleep after a 429 response with a Retry-After hint of N seconds
\* is N seconds long, and it is the only sleep made after that attempt.
C20_RateLimitOverride ==
    /\ \A j \in DOMAIN rsleeps :
        (rsleeps[j].why = "rate" /\ rsleeps[j].hint # NoHint) =>
            rsleeps[j].secs = rsleeps[j].hint
    /\ \A j, k \in DOMAIN rsleeps :
        (j # k /\ rkind = "search") => rsleeps[j].after # rsleeps[k].after

\* A 429 response with a hint was waited for and the next attempt was made.
C20_Witness ==
    /\ rkind = "search"
    /\ \E j \in DOMAIN rsleeps :
        /\ rsleeps[j].why = "rate"
        /\ rsleeps[j].hint = MaxHint
        /\ rcalls > rsleeps[j].after + 1


\* -------------------------------------------------------- claims, enqueue
Present(rows, name) == \E i \in DOMAIN rows : rows[i].topic = name

\* C21: a JobQueue.add_topic call that reads a store in which the topic name
\* is already present returns False through the "already exists" branch, not
\* through an exception, and its return leaves every row of the store as it
\* was.
C21_EnqueueExistingKey ==
    [][\A c \in Workers :
        (/\ akind = "JobQueue"
         /\ apc[c] = "loaded"
         /\ apc'[c] = "idle"
         /\ Present(aloaded[c], aname[c]))
        => (/\ arows' = arows
            /\ aret'[c] = [value |-> "False", log |-> "Topic already exists"])]_vars

\* A call returned False for a topic whose row is completed and has notes.
C21_Witness ==
    \E c \in Workers :
        /\ akind = "JobQueue"
        /\ aret[c] = [value |-> "False", log |-> "Topic already exists"]
        /\ \E i \in DOMAIN arows :
            /\ arows[i].topic = aname[c]
            /\ arows[i].status = STATUS_COMPLETED
            /\ arows[i].notes = "old"

\* C22: the store holds at most one row per topic key.
C22_UniqueTopicKey ==
    \A i, j \in DOMAIN arows : arows[i].topic = arows[j].topic => i = j


\* ---------------------------------------------------- claims, claim order
\* The order the claim requires: higher priority first, then the earlier
\* enqueue; row ids are in enqueue order and are the key.
Precedes(r, q) ==
    \/ priority[r] > priority[q]
    \/ priority[r] = priority[q] /\ r < q

C24_TerminalMarkNeedsClaim ==
    [][\A w \in Workers :
        (/\ pc[w] = "update_save"
         /\ pc'[w] = "poll"
         /\ wb[w][topic[w]].status # STATUS_IN_PROGRESS)
        => file' = file]_vars


\* --------------------------------------------------- claims, the worker loop
\* C25 (as claimed): once update_status has reported at the end of
\* process_topic that the topic was not found or could not be written, the
\* loop has stopped instead of going on to the next round.
C25_NotFoundIsFatal ==
    (llast.op = "update_status" /\ llast.value = "False") => lpc = "stopped"

\* C26 (as claimed): a get_next_pending_topic call that could not read the
\* store does not hand the loop the value it hands it for an empty queue.
C26_StoreUnavailablePropagates ==
    (llast.op = "get_next_pending_topic" /\ llast.log = "Error reading Excel file")
        => llast.value # "None"

\* C27: the claim_topic call of the loop that finds the row there but no
\* longer Pending returns False from the "cannot claim" branch, leaves the row
\* as it was, and the loop is back at the top with iteration_count and the
\* number of process_topic calls unchanged.
C27_LostRaceNotAnError ==
    [][(/\ lpc = "claim"
        /\ lpc' # "claim"
        /\ lavailable
        /\ lrow.status \notin {STATUS_PENDING, "absent"})
       => (/\ llast' = Call("claim_topic", "False", "Cannot claim topic")
           /\ lrow' = lrow
           /\ lpc' = "check"
           /\ lcount' = lcount
           /\ lprocessed' = lprocessed)]_vars

\* The loop lost the race for the row another worker holds, after having
\* processed a topic: its count is still that of the topics it processed.
C27_Witness ==
    /\ llast = Call("claim_topic", "False", "Cannot claim topic")
    /\ lrow.status = STATUS_IN_PROGRESS
    /\ lpc = "check"
    /\ lcount = 1
    /\ lprocessed = 1

\* C28 (as claimed): when process_topic has marked the row Failed, the
\* Error_Message cell is not empty and is shorter than the longest exception
\* text, as a truncation to any fixed bound below that length makes it.
C28_BoundedErrorMessage ==
    [][(/\ lpc = "update"
        /\ lpc' # "update"
        /\ loutcome.status = STATUS_FAILED
        /\ llast'.value = "True")
       => (lrow'.errlen >= 1 /\ lrow'.errlen < MaxMsgLen)]_vars


\* ------------------------------------------------ claims, rows of the sheet
\* C29 (as claimed): a step of a worker's queue call leaves every row other
\* than the row of the worker's own topic as it is in the file, so that what
\* another worker saved for another topic stays.
C29_NoCrossRowInterference ==
    [][\A w \in Workers :
        pc'[w] # pc[w] =>
            \A i \in Topics :
                (i # topic[w] /\ i # topic'[w]) => file'[i] = file[i]]_vars


\* ----------------------------------------------- claims, run_continuous
\* C30 (as claimed): a run_continuous loop without max_iterations has
\* returned only if no topic is pending; its last run_for_next_topic call
\* returned False because Phase 1 found no pending topic.
C30_RunContinuousDrains ==
    \A w \in Workers : ~olooping[w] => \A t \in Topics : ostatus[t] # "pending"


\* ------------------------------------------- claims, retry loops, continued
\* C39: a call wrapped by retry_with_backoff makes no invocation after a
\* successful one; when it has returned, the number k of invocations made is
\* the position of the first success, k <= max_retries, the value returned is
\* that of invocation k, and k - 1 sleeps were made.
C39_StopsAtFirstSuccess ==
    rkind = "helper" =>
        /\ \A j \in DOMAIN routcomes : routcomes[j].kind = "ok" => j = Len(routcomes)
        /\ (rpc = "done" /\ rresult.kind = "return") =>
            /\ rcalls = Len(routcomes)
            /\ rcalls <= rmax
            /\ routcomes[rcalls].kind = "ok"
            /\ rresult = Returned(routcomes[rcalls])
            /\ Len(rsleeps) = rcalls - 1

\* The wrapped function succeeded at its last permitted invocation.
C39_Witness ==
    /\ rkind = "helper"
    /\ rmax = MaxRetries
    /\ rpc = "done"
    /\ rresult.kind = "return"
    /\ rcalls = MaxRetries
    /\ Len(rsleeps) = MaxRetries - 1


\* C36: PerplexityClient.search / chat_json has sent at most max_retries
\* requests, rate-limit responses included, and once it has sent max_retries
\* of them the call is over.
C36_RateLimitConsumesBudget ==
    rkind = "search" =>
        /\ rcalls <= rmax
        /\ rcalls = Len(routcomes)
        /\ rcalls = rmax => rpc = "done"

\* Every request was answered with a rate-limit response and the call ended.
C36_Witness ==
    /\ rkind = "search"
    /\ rmax = MaxRetries
    /\ rpc = "done"
    /\ rcalls = MaxRetries
    /\ \A j \in DOMAIN routcomes : routcomes[j].kind = "rate_limit"


\* ------------------------------------------------ claims, run loop, continued
\* C38: with max_iterations = m > 0, run has called process_topic at most m
\* times, has stopped only after m calls, and starts no further poll once m
\* calls are done; iteration_count is the number of process_topic calls that
\* have returned, whatever they returned, and nothing else is counted.
C38_MaxIterationsBoundsWork ==
    lmax > 0 =>
        /\ lprocessed <= lmax
        /\ lpc = "stopped" => lprocessed = lmax
        /\ lprocessed = lmax => lpc \in {"update", "check", "stopped"}
        /\ lcount = IF lpc = "update" THEN lprocessed - 1 ELSE lprocessed

\* The loop stopped at its limit, the last topic it processed having failed.
C38_Witness ==
    /\ lmax = MaxIterations
    /\ lpc = "stopped"
    /\ lprocessed = MaxIterations
    /\ lreturned = "False"
    /\ llast.op = "update_status"


\* ------------------------------- claims, the parallel research phase, continued
\* C37: Phase2ParallelResearch.execute returns 'failed' exactly when the list
\* of sub-queries is empty; for N >= 1 sub-queries it returns 'completed' with
\* successful_queries = the number of tasks that did not raise (total_queries
\* is len(sub_queries), N itself).
C37_StatusIgnoresTaskFailures ==
    ppc = "returned" =>
        /\ pstatus = "failed" <=> pN = 0
        /\ pN > 0 =>
            /\ pstatus = "completed"
            /\ SuccessfulQueries(presults) = Cardinality({i \in 1..pN : ptask[i] = "ok"})


\* ------------------------------------------ claims, Orchestrator runs, continued
\* The pipeline of worker w is running, or has run a phase, for topic t.
RunsPipelineFor(w, t) ==
    /\ otopic[w] = t
    /\ opc[w] = "phase" \/ odone[w] \ {1} # {}

\* C35 (as claimed): of two Orchestrator instances on the same database, at
\* most one runs the pipeline for a given pending topic.
C35_SingleRunnerPerTopic ==
    \A t \in Topics : \A v, w \in Workers :
        (RunsPipelineFor(v, t) /\ RunsPipelineFor(w, t)) => v = w


C31_RunsRequestedTopic ==
    \A w \in Workers :
        /\ (ipc[w] = "running" /\ otopic[w] # 0) => otopic[w] = irequested[w]
        /\ ipc[w] = "raised" => irequested[w] \notin Topics


\* ------------------------------------------------- claims, ExcelQueueManager
\* C32: the list get_pending_topics has just returned holds each row whose
\* status is pending once and no other row, in non-increasing priority, each
\* entry with the topic and priority of the row at its index; and the row at
\* the index update_status was just given has the status it was given.
C32_PendingListing ==
    /\ xcall.op = "get_pending_topics" =>
        LET l == xresult.list IN
        /\ xresult.returned = "list"
        /\ {l[j].index : j \in DOMAIN l} =
               {i - 1 : i \in {k \in DOMAIN xrows : xrows[k].status \in {"pending", "Pending"}}}
        /\ \A j, k \in DOMAIN l : j # k => l[j].index # l[k].index
        /\ \A j, k \in DOMAIN l : j < k => l[j].priority >= l[k].priority
        /\ \A j \in DOMAIN l :
            /\ l[j].topic = xrows[l[j].index + 1].topic
            /\ l[j].priority = xrows[l[j].index + 1].priority
    /\ xcall.op = "update_status" => xrows[xcall.index + 1].status = xcall.status

\* Three rows, one of them no longer pending; the list has the two others,
\* the row added later first because its priority is higher.
C32_Witness ==
    /\ xcall.op = "get_pending_topics"
    /\ Len(xrows) = 3
    /\ \E i \in DOMAIN xrows : xrows[i].status = "completed"
    /\ Len(xresult.list) = 2
    /\ xresult.list[1].index > xresult.list[2].index
    /\ xresult.list[1].priority > xresult.list[2].priority


\* --------------------------------------------- claims, execute_pipeline
\* C34: once a phase has returned 'failed' or raised, no later phase is
\* called; the call then returns status 'failed', with error_phase = n when
\* phase n returned 'failed' and with the error text when it raised; the
\* returned dictionary holds the output of every phase that returned; the
\* call ends by returning; 'completed' is returned only when all 8 phases
\* returned a status other than 'failed'.
C34_FailFast ==
    LET outputs == gresults.phases
        failed == {n \in DOMAIN outputs : outputs[n].status = "failed"}
    IN
    /\ \A n \in failed : \A j \in DOMAIN gcalled : gcalled[j] <= n
    /\ graised # 0 => \A j \in DOMAIN gcalled : gcalled[j] <= graised
    /\ \A j \in DOMAIN gcalled : gcalled[j] = j
    /\ graised # 0 => gpc \in {"except", "returned"}
    /\ gpc = "returned" =>
        /\ gresults.status \in {"failed", "completed"}
        /\ \A n \in failed : gresults.status = "failed" /\ gresults.error_phase = n
        /\ graised # 0 =>
            /\ gresults.status = "failed"
            /\ gresults.error >= 0
            /\ DOMAIN outputs = 1..(graised - 1)
        /\ graised = 0 => DOMAIN outputs = 1..Len(gcalled)
        /\ gresults.status = "completed" =>
            /\ DOMAIN outputs = 1..NumPhases
            /\ \A n \in 1..NumPhases : outputs[n].status # "failed"

\* Phase 3 returned 'failed' after two phases that completed.
C34_Witness ==
    /\ gpc = "returned"
    /\ gresults.status = "failed"
    /\ gresults.error_phase = 3
    /\ Len(gresults.phases) = 3
    /\ gcalled = <<1, 2, 3>>

====
